---- MODULE Spec2Model ----
(***************************************************************************)
(* Predictive-maintenance backend: the transition-based EventEngine        *)
(* (backend/events/engine.py) and the demo lifecycle controller with its   *)
(* background workers (backend/api/system_routes.py) over the in-memory    *)
(* per-asset stores of backend/api/integration_routes.py.                  *)
(***************************************************************************)
EXTENDS Integers, Sequences, FiniteSets, TLC

(***************************************************************************)
(* Bounds of the model.                                                    *)
(***************************************************************************)
MaxCalls == 5

MaxCallsAcrossReset == 6

Assets == {"Motor-01", "Motor-02"}

(***************************************************************************)
(* Optional[bool]: None is the empty sequence, a known value b is <<b>>.   *)
(***************************************************************************)
None == <<>>

Some(b) == <<b>>

-----------------------------------------------------------------------------
(***************************************************************************)
(* EventEngine                                                             *)
(***************************************************************************)
VARIABLES
    states,     \* EventEngine._states: asset_id -> _AssetState (a dict)
    inputs,     \* per asset, the is_faulty values of its evaluate calls so far
    emitted,    \* per asset, the types of the events returned so far
    call        \* the last evaluate call: its arguments, tracker before/after, result

engineVars == <<states, inputs, emitted, call>>

\* the lifecycle controller, the stores it shares with the health routes, the
\* worker threads and the request being handled
VARIABLES
    system_state,     \* SystemStateManager._state
    message,          \* SystemStateManager._message (which message it is)
    fault_type,       \* SystemStateManager._fault_type
    fault_severity,   \* SystemStateManager._fault_severity
    stop_event,       \* SystemStateManager._stop_event
    active_thread,    \* SystemStateManager._active_thread (0: None)
    metrics,          \* the five validation counters
    sensor_history,   \* _sensor_history: asset -> number of readings held
    baselines,        \* _baselines: asset -> baseline (the cycle that built it)
    detectors,        \* _detectors: asset -> legacy detector
    batch_detectors,  \* _batch_detectors: asset -> batch detector
    latest_health,    \* _latest_health: asset -> cached HealthReport
    threads,          \* the worker threads started so far, by number
    nthreads,         \* how many threads were started
    nrequests,        \* how many requests have arrived
    request           \* the handler running on the event loop

lifeVars == <<system_state, message, fault_type, fault_severity, stop_event,
              active_thread, metrics, sensor_history, baselines, detectors,
              batch_detectors, latest_health, threads, nthreads, nrequests, request>>

\* the readings of the sample history and what is persisted of them (the
\* lifecycle specification keeps only the number of readings, sensor_history)
VARIABLES
    history_rows,     \* _sensor_history: asset -> the list of readings held
    appended,         \* per asset, how many readings were appended so far
    points,           \* the kinds of points written to the external store
    response,         \* the last response of simple_ingest / get_data_history
    ningest           \* how many simple_ingest calls were made

ingestVars == <<history_rows, appended, points, response, ningest>>

\* the health assessment of one anomaly score
VARIABLES
    assess_args,      \* the arguments of the last HealthAssessor.assess call
    report            \* the HealthReport it returned

assessVars == <<assess_args, report>>

\* the range check of one reading against a baseline
VARIABLES
    range_args,       \* the arguments of the last _simple_range_check call
    range_score       \* the score it returned, a fraction [n, d]

rangeVars == <<range_args, range_score>>

\* the scoring of the latest reading by get_health_status
VARIABLES
    status_args,      \* what the request found: history, baseline, detector path
    status_result     \* what it did: 404, the default answer, or the scores

statusVars == <<status_args, status_result>>

\* the verdict a monitoring loop stamps on one window of readings
VARIABLES
    window_args,      \* the loop, the detector's state and answer, the baseline, the last reading
    window_verdict    \* is_faulty as stamped on the window's readings

verdictVars == <<window_args, window_verdict>>

\* batch feature extraction and scoring of raw windows
VARIABLES
    feature_call,     \* the last call: extract, slice or score_raw, with its arguments
    feature_result    \* what it returned or raised

featureVars == <<feature_call, feature_result>>

\* baseline persistence
VARIABLES
    files,            \* the directory: file name -> JSON document
    saved,            \* the save_baseline calls made: profile and returned path
    loaded            \* the last load_baseline call: path and returned profile

persistVars == <<files, saved, loaded>>

\* validation of data against a baseline
VARIABLES
    check_args,       \* the arguments of the last check_data_against_baseline call
    check_result      \* the ValidationResult it returned, with its pass_rate

checkVars == <<check_args, check_result>>

\* one GET /system/state request
VARIABLES
    snap_pc,          \* the position of get_system_state
    snapshot,         \* the values it has read so far
    snap_seen         \* the manager's values at the instants of its reads

readerVars == <<snap_pc, snapshot, snap_seen>>

\* one simple_ingest request and one monitoring worker on one asset's history
VARIABLES
    live_history,     \* the list _sensor_history[asset_id] is bound to
    tick_kind,        \* which loop the worker runs
    tick_pc,          \* the worker's position in its tick
    tick_i,           \* how many readings of its batch it has appended
    tick_slice,       \* the list its slice expression evaluated to
    post_pc,          \* the request's position in simple_ingest
    post_slice,       \* the list the request's slice expression evaluated to
    post_response,    \* what simple_ingest returned
    newer             \* how many readings were appended after the sample

raceVars == <<live_history, tick_kind, tick_pc, tick_i, tick_slice, post_pc,
              post_slice, post_response, newer>>

\* the variables of the scoring and persistence components
moreVars == <<rangeVars, statusVars, verdictVars, featureVars, persistVars, checkVars, readerVars, raceVars>>

EVENT_ANOMALY_DETECTED == "ANOMALY_DETECTED"

EVENT_ANOMALY_CLEARED == "ANOMALY_CLEARED"

SEVERITY_INFO == "info"

SEVERITY_CRITICAL == "critical"

DEBOUNCE_COUNT == 2

\* _AssetState.__init__
NewAssetState ==
    [previous_is_faulty |-> None, consecutive_faulty |-> 0, consecutive_healthy |-> 0]

\* The body of EventEngine.evaluate under _states_lock, on the tracker st of
\* the asset (created when the asset was not in _states): the tracker it
\* leaves and the list it returns.
evaluateNoUpdate(st, is_faulty) ==
    IF st.previous_is_faulty = None
    THEN [state |-> [st EXCEPT !.previous_is_faulty = Some(is_faulty)], events |-> <<>>]
    ELSE IF Some(is_faulty) = st.previous_is_faulty
    THEN [state |-> IF is_faulty THEN [st EXCEPT !.consecutive_healthy = 0]
                                 ELSE [st EXCEPT !.consecutive_faulty = 0],
          events |-> <<>>]
    ELSE LET counted == IF is_faulty
                        THEN [st EXCEPT !.consecutive_faulty = @ + 1,
                                        !.consecutive_healthy = 0]
                        ELSE [st EXCEPT !.consecutive_healthy = @ + 1,
                                        !.consecutive_faulty = 0]
         IN IF is_faulty /\ counted.consecutive_faulty < DEBOUNCE_COUNT
            THEN [state |-> counted, events |-> <<>>]
            ELSE IF ~is_faulty /\ counted.consecutive_healthy < DEBOUNCE_COUNT
            THEN [state |-> counted, events |-> <<>>]
            ELSE [state |-> [counted EXCEPT !.consecutive_faulty = 0,
                                            !.consecutive_healthy = 0],
                  events |-> IF is_faulty /\ st.previous_is_faulty = Some(FALSE)
                             THEN <<[type |-> EVENT_ANOMALY_DETECTED,
                                     severity |-> SEVERITY_CRITICAL]>>
                             ELSE <<[type |-> EVENT_ANOMALY_CLEARED,
                                     severity |-> SEVERITY_INFO]>>]

evaluateNoDebounce(st, is_faulty) ==
    IF st.previous_is_faulty = None
    THEN [state |-> [st EXCEPT !.previous_is_faulty = Some(is_faulty)], events |-> <<>>]
    ELSE IF Some(is_faulty) = st.previous_is_faulty
    THEN [state |-> IF is_faulty THEN [st EXCEPT !.consecutive_healthy = 0]
                                 ELSE [st EXCEPT !.consecutive_faulty = 0],
          events |-> <<>>]
    ELSE [state |-> [st EXCEPT !.consecutive_faulty = 0,
                               !.consecutive_healthy = 0,
                               !.previous_is_faulty = Some(is_faulty)],
          events |-> IF is_faulty /\ st.previous_is_faulty = Some(FALSE)
                     THEN <<[type |-> EVENT_ANOMALY_DETECTED,
                             severity |-> SEVERITY_CRITICAL]>>
                     ELSE <<[type |-> EVENT_ANOMALY_CLEARED,
                             severity |-> SEVERITY_INFO]>>]

evaluateNoSeed(st, is_faulty) ==
    LET seen == IF st.previous_is_faulty = None
                THEN [st EXCEPT !.previous_is_faulty = Some(FALSE)]
                ELSE st
    IN IF is_faulty = seen.previous_is_faulty[1]
       THEN [state |-> seen, events |-> <<>>]
       ELSE [state |-> [seen EXCEPT !.previous_is_faulty = Some(is_faulty)],
             events |-> IF is_faulty
                        THEN <<[type |-> EVENT_ANOMALY_DETECTED,
                                severity |-> SEVERITY_CRITICAL]>>
                        ELSE <<[type |-> EVENT_ANOMALY_CLEARED,
                                severity |-> SEVERITY_INFO]>>]

evaluate(st, is_faulty) ==
    IF st.previous_is_faulty = None
    THEN \* first-ever reading: seed state, no event
         [state |-> [st EXCEPT !.previous_is_faulty = Some(is_faulty)], events |-> <<>>]
    ELSE IF Some(is_faulty) = st.previous_is_faulty
    THEN \* no transition: reset the opposite counter
         [state |-> IF is_faulty THEN [st EXCEPT !.consecutive_healthy = 0]
                                 ELSE [st EXCEPT !.consecutive_faulty = 0],
          events |-> <<>>]
    ELSE LET counted == IF is_faulty
                        THEN [st EXCEPT !.consecutive_faulty = @ + 1,
                                        !.consecutive_healthy = 0]
                        ELSE [st EXCEPT !.consecutive_healthy = @ + 1,
                                        !.consecutive_faulty = 0]
         IN IF is_faulty /\ counted.consecutive_faulty < DEBOUNCE_COUNT
            THEN [state |-> counted, events |-> <<>>]
            ELSE IF ~is_faulty /\ counted.consecutive_healthy < DEBOUNCE_COUNT
            THEN [state |-> counted, events |-> <<>>]
            ELSE \* transition confirmed
                 [state |-> [counted EXCEPT !.consecutive_faulty = 0,
                                            !.consecutive_healthy = 0,
                                            !.previous_is_faulty = Some(is_faulty)],
                  events |-> IF is_faulty /\ st.previous_is_faulty = Some(FALSE)
                             THEN <<[type |-> EVENT_ANOMALY_DETECTED,
                                     severity |-> SEVERITY_CRITICAL]>>
                             ELSE <<[type |-> EVENT_ANOMALY_CLEARED,
                                     severity |-> SEVERITY_INFO]>>]

\* dict assignment d[k] = v
DictSet(d, k, v) == [x \in (DOMAIN d) \cup {k} |-> IF x = k THEN v ELSE d[x]]

\* dict.pop(k, None)
DictPop(d, k) == [x \in (DOMAIN d) \ {k} |-> d[x]]

\* dict.clear()
EmptyDict == [x \in {} |-> None]

NoCall == [asset |-> "", tracked |-> FALSE]

EngineInit ==
    /\ states = EmptyDict
    /\ inputs = [a \in Assets |-> <<>>]
    /\ emitted = [a \in Assets |-> <<>>]
    /\ call = NoCall

\* One call EventEngine.evaluate(asset_id, is_faulty).
EvaluateCall(asset_id, is_faulty) ==
    /\ LET st == IF asset_id \in DOMAIN states THEN states[asset_id] ELSE NewAssetState
           r == evaluate(st, is_faulty)
       IN /\ states' = DictSet(states, asset_id, r.state)
          /\ inputs' = [inputs EXCEPT ![asset_id] = Append(@, is_faulty)]
          /\ emitted' = [emitted EXCEPT
                            ![asset_id] = @ \o [i \in 1..Len(r.events) |-> r.events[i].type]]
          /\ call' = [asset |-> asset_id,
                      is_faulty |-> is_faulty,
                      tracked |-> asset_id \in DOMAIN states,
                      before |-> st,
                      preceding |-> IF inputs[asset_id] = <<>> THEN None
                                    ELSE Some(inputs[asset_id][Len(inputs[asset_id])]),
                      after |-> r.state,
                      result |-> r.events]
    /\ UNCHANGED <<lifeVars, ingestVars, assessVars, moreVars>>

\* EventEngine.evaluate(asset_id, is_faulty), at most MaxCalls times an asset.
Evaluate(asset_id, is_faulty) ==
    /\ Len(inputs[asset_id]) < MaxCalls
    /\ EvaluateCall(asset_id, is_faulty)

\* EventEngine.evaluate for the first asset, often enough for an event before
\* a reset and one after it.
EvaluateFirstAsset(is_faulty) ==
    /\ Len(inputs["Motor-01"]) < MaxCallsAcrossReset
    /\ EvaluateCall("Motor-01", is_faulty)

\* EventEngine.reset(asset_id) with an asset id.
ResetAsset(asset_id) ==
    /\ asset_id \in DOMAIN states
    /\ states' = DictPop(states, asset_id)
    /\ UNCHANGED <<inputs, emitted, call>>
    /\ UNCHANGED <<lifeVars, ingestVars, assessVars, moreVars>>

\* EventEngine.reset() without an asset id.
ResetAll ==
    /\ states # EmptyDict
    /\ states' = EmptyDict
    /\ UNCHANGED <<inputs, emitted, call>>
    /\ UNCHANGED <<lifeVars, ingestVars, assessVars, moreVars>>

-----------------------------------------------------------------------------
(***************************************************************************)
(* Lifecycle controller (api/system_routes.py) over the in-memory stores   *)
(* of api/integration_routes.py.  The request handlers are coroutines of   *)
(* one event loop and contain no await, so one handler runs at a time; the *)
(* background workers are threads and interleave with the running handler  *)
(* and with each other at every access to shared state.                    *)
(***************************************************************************)
MaxRequests == 3

\* every accepted request starts at most one thread
MaxThreads == MaxRequests

\* the requests of the executions checked under fairness
MaxLiveRequests == 2

BurstChunks == 1

MaxTicks == 1

LifeAssets == {"Motor-01"}

IDLE == "IDLE"

CALIBRATING == "CALIBRATING"

MONITORING_HEALTHY == "MONITORING_HEALTHY"

FAULT_INJECTION == "FAULT_INJECTION"

SystemState == {IDLE, CALIBRATING, MONITORING_HEALTHY, FAULT_INJECTION}

FaultType == {"SPIKE", "JITTER"}

FaultSeverity == {"SEVERE"}

BURST_SAMPLES == 1000

BATCH == 100

DISPLAY_KEEP == 100

RESUME_KEEP == 1000

NoneStr == "None"

ZeroMetrics ==
    [training_samples |-> 0, healthy_total |-> 0, healthy_correct |-> 0,
     faulty_total |-> 0, faulty_correct |-> 0]

\* d.get(k): None when the key is absent
Get(d, k) == IF k \in DOMAIN d THEN Some(d[k]) ELSE None

NoThread ==
    [kind |-> "none", asset |-> "", ft |-> NoneStr, sev |-> NoneStr,
     pc |-> "unstarted", i |-> 0, signalled |-> FALSE, snap |-> <<>>]

NoRequest ==
    [op |-> "none", asset |-> "", ft |-> NoneStr, sev |-> NoneStr,
     pc |-> "idle", baseline |-> 0, status |-> "", observed |-> <<>>]

\* SystemStateManager.__init__ and the module-level stores
LifeInit ==
    /\ system_state = IDLE
    /\ message = "ready"
    /\ fault_type = NoneStr
    /\ fault_severity = NoneStr
    /\ stop_event = FALSE
    /\ active_thread = 0
    /\ metrics = ZeroMetrics
    /\ sensor_history = EmptyDict
    /\ baselines = EmptyDict
    /\ detectors = EmptyDict
    /\ batch_detectors = EmptyDict
    /\ latest_health = EmptyDict
    /\ threads = [w \in 1..MaxThreads |-> NoThread]
    /\ nthreads = 0
    /\ nrequests = 0
    /\ request = NoRequest

\* a set_state that overwrites the fault fields only when they are given
setStateKeepsFault(state, msg, ft, sev) ==
    /\ system_state' = state
    /\ message' = msg
    /\ fault_type' = IF ft = NoneStr THEN fault_type ELSE ft
    /\ fault_severity' = IF sev = NoneStr THEN fault_severity ELSE sev

\* SystemStateManager.set_state
set_state(state, msg, ft, sev) ==
    /\ system_state' = state
    /\ message' = msg
    /\ fault_type' = ft
    /\ fault_severity' = sev

stateVars == <<system_state, message, fault_type, fault_severity>>

storeVars == <<sensor_history, baselines, detectors, batch_detectors>>

\* threading.Thread.is_alive
is_alive(w) == w # 0 /\ threads[w].pc \notin {"unstarted", "done"}

\* The thread w moves on to pc (its other locals unchanged).
Goto(w, pc) == threads' = [threads EXCEPT ![w].pc = pc]

\* The thread function returns (or dies).
Exit(w) ==
    threads' = [threads EXCEPT ![w] = [NoThread EXCEPT !.kind = threads[w].kind,
                                                        !.pc = "done"]]

-----------------------------------------------------------------------------
(***************************************************************************)
(* run_calibration(asset_id).  One modelled burst chunk stands for 100     *)
(* iterations of the burst loop (one progress message); each phase sets    *)
(* its progress message and does its work in one step; a phase that raises *)
(* runs the except clause in the same step.                                *)
(***************************************************************************)
\* except Exception as e: set_state(IDLE, "... failed: ..."); the thread ends
Except(w) ==
    /\ set_state(IDLE, IF threads[w].kind = "calibration" THEN "calibration_failed"
                       ELSE "fault_failed", NoneStr, NoneStr)
    /\ Exit(w)

\* _state_manager.reset_metrics()
CalResetMetrics(w) ==
    /\ threads[w].kind = "calibration" /\ threads[w].pc = "reset_metrics"
    /\ metrics' = [ZeroMetrics EXCEPT !.training_samples = metrics.training_samples]
    /\ Goto(w, "set_calibrating")
    /\ UNCHANGED <<engineVars, ingestVars, assessVars, moreVars, stateVars, stop_event, active_thread, storeVars, latest_health,
                   nthreads, nrequests, request>>

\* set_state(CALIBRATING, ...); if asset_id not in _sensor_history: ... = []
CalSetCalibrating(w) ==
    /\ threads[w].kind = "calibration" /\ threads[w].pc = "set_calibrating"
    /\ set_state(CALIBRATING, "burst", NoneStr, NoneStr)
    /\ sensor_history' = IF threads[w].asset \in DOMAIN sensor_history
                         THEN sensor_history
                         ELSE DictSet(sensor_history, threads[w].asset, 0)
    /\ Goto(w, "burst")
    /\ UNCHANGED <<engineVars, ingestVars, assessVars, moreVars, stop_event, active_thread, metrics, baselines, detectors,
                   batch_detectors, latest_health, nthreads, nrequests, request>>

\* for i in range(BURST_SAMPLES): if should_stop(): set IDLE, return;
\* generate and persist the reading, report progress -- and after the loop
\* _sensor_history[asset_id] = burst_data[-100:]; set_training_samples(BURST_SAMPLES)
CalBurst(w) ==
    /\ threads[w].kind = "calibration" /\ threads[w].pc = "burst"
    /\ IF threads[w].i >= BurstChunks
       THEN /\ sensor_history' = DictSet(sensor_history, threads[w].asset, DISPLAY_KEEP)
            /\ metrics' = [metrics EXCEPT !.training_samples = BURST_SAMPLES]
            /\ Goto(w, "build_baseline")
            /\ UNCHANGED stateVars
       ELSE IF stop_event
       THEN /\ set_state(IDLE, "cancelled", NoneStr, NoneStr)
            /\ Exit(w)
            /\ UNCHANGED <<sensor_history, metrics>>
       ELSE /\ set_state(CALIBRATING, "progress", NoneStr, NoneStr)
            /\ threads' = [threads EXCEPT ![w].i = @ + 1]
            /\ UNCHANGED <<sensor_history, metrics>>
    /\ UNCHANGED <<engineVars, ingestVars, assessVars, moreVars, stop_event, active_thread, baselines, detectors, batch_detectors,
                   latest_health, nthreads, nrequests, request>>

\* phase 2: set_state(CALIBRATING, ...); baseline = builder.build(df);
\* _baselines[asset_id] = baseline -- or build raises
CalBuildBaseline(w) ==
    /\ threads[w].kind = "calibration" /\ threads[w].pc = "build_baseline"
    /\ \/ /\ set_state(CALIBRATING, "baseline", NoneStr, NoneStr)
          /\ baselines' = DictSet(baselines, threads[w].asset, w)
          /\ Goto(w, "train")
       \/ /\ Except(w)
          /\ baselines' = baselines
    /\ UNCHANGED <<engineVars, ingestVars, assessVars, moreVars, stop_event, active_thread, metrics, sensor_history, detectors,
                   batch_detectors, latest_health, nthreads, nrequests, request>>

\* what a training phase can do: train and install its detector, find fewer
\* than 10 feature rows and skip (nothing installed, no exception), or raise
TrainOutcomes == {"trained", "skipped", "raised"}

\* phase 3: set_state(CALIBRATING, ...); if len(feature_data) >= 10:
\* detector.train(feature_df); _detectors[asset_id] = detector;
\* phase 3b: set_state(CALIBRATING, ...); if len(batch_feature_rows) >= 10:
\* batch_det.train(rows); _batch_detectors[asset_id] = batch_det
CalTrain(w) ==
    /\ threads[w].kind = "calibration" /\ threads[w].pc = "train"
    /\ \E d \in TrainOutcomes, b \in TrainOutcomes :
          /\ detectors' = IF d = "trained"
                          THEN DictSet(detectors, threads[w].asset,
                                       [cycle |-> w, is_trained |-> TRUE])
                          ELSE detectors
          /\ batch_detectors' = IF d # "raised" /\ b = "trained"
                                THEN DictSet(batch_detectors, threads[w].asset,
                                             [cycle |-> w, is_trained |-> TRUE])
                                ELSE batch_detectors
          /\ IF d = "raised" \/ b = "raised"
             THEN Except(w)
             ELSE /\ set_state(CALIBRATING, "batch", NoneStr, NoneStr)
                  /\ Goto(w, "set_monitoring")
    /\ UNCHANGED <<engineVars, ingestVars, assessVars, moreVars, stop_event, active_thread, metrics, sensor_history, baselines,
                   latest_health, nthreads, nrequests, request>>

\* a calibration that never announces its completion
CalSetMonitoringSilent(w) ==
    /\ threads[w].kind = "calibration" /\ threads[w].pc = "set_monitoring"
    /\ threads' = [threads EXCEPT ![w].pc = "poll", ![w].i = 0]
    /\ UNCHANGED <<engineVars, ingestVars, assessVars, moreVars, stateVars, stop_event, active_thread, metrics, storeVars,
                   latest_health, nthreads, nrequests, request>>

\* set_state(MONITORING_HEALTHY, "Calibration complete ...")
CalSetMonitoring(w) ==
    /\ threads[w].kind = "calibration" /\ threads[w].pc = "set_monitoring"
    /\ set_state(MONITORING_HEALTHY, "complete", NoneStr, NoneStr)
    /\ threads' = [threads EXCEPT ![w].pc = "poll", ![w].i = 0]
    /\ UNCHANGED <<engineVars, ingestVars, assessVars, moreVars, stop_event, active_thread, metrics, storeVars, latest_health,
                   nthreads, nrequests, request>>

-----------------------------------------------------------------------------
(***************************************************************************)
(* The monitoring loops: run_calibration's (after calibration),            *)
(* run_fault_injection's and reset_system.resume_healthy_monitoring's.     *)
(***************************************************************************)
\* the state each loop requires to go on
LoopState(kind) == IF kind = "fault" THEN FAULT_INJECTION ELSE MONITORING_HEALTHY

\* SystemStateManager.should_stop
should_stop == stop_event

\* while not _state_manager.should_stop():
\*     if _state_manager.state != <the loop's state>: break
LoopPoll(w) ==
    /\ threads[w].pc = "poll"
    /\ IF should_stop \/ system_state # LoopState(threads[w].kind)
       THEN Exit(w)
       ELSE Goto(w, "tick")
    /\ UNCHANGED <<engineVars, ingestVars, assessVars, moreVars, stateVars, stop_event, active_thread, metrics, storeVars,
                   latest_health, nthreads, nrequests, request>>

\* db.write_batch(measurement, points): the batch goes to the external store
\* and the call returns; nothing of the controller's state changes
write_batch == TRUE

\* db.delete_all(): the external store is wiped and the call returns
delete_all == TRUE

\* the verdicts the scoring of a window can give
Verdicts(kind, asset) ==
    IF asset \in DOMAIN batch_detectors THEN BOOLEAN
    ELSE IF kind = "fault" THEN {TRUE}
    ELSE IF asset \in DOMAIN baselines THEN BOOLEAN
    ELSE {FALSE}

\* record_healthy_classification / record_faulty_classification, BATCH times
Recorded(kind, anomaly) ==
    CASE kind = "calibration" ->
            [metrics EXCEPT !.healthy_total = @ + BATCH,
                            !.healthy_correct = IF anomaly THEN @ ELSE @ + BATCH]
      [] kind = "fault" ->
            [metrics EXCEPT !.faulty_total = @ + BATCH,
                            !.faulty_correct = IF anomaly THEN @ + BATCH ELSE @]
      [] OTHER -> metrics

\* One tick: generate the window, score it, stamp and append every reading and
\* record it, db.write_batch(...), keep the last readings, time.sleep(1.0).
\* _sensor_history[asset_id] raises KeyError when the asset has no history.
LoopTick(w) ==
    /\ threads[w].pc = "tick"
    /\ threads[w].i < MaxTicks
    /\ IF threads[w].asset \notin DOMAIN sensor_history
       THEN /\ IF threads[w].kind = "resume"
               THEN Exit(w) /\ UNCHANGED stateVars
               ELSE Except(w)
            /\ UNCHANGED <<metrics, sensor_history>>
       ELSE /\ LET keep == IF threads[w].kind = "resume" THEN RESUME_KEEP
                           ELSE DISPLAY_KEEP
               IN sensor_history' =
                     [sensor_history EXCEPT ![threads[w].asset] =
                         IF @ + BATCH > keep THEN keep ELSE @ + BATCH]
            /\ \E anomaly \in Verdicts(threads[w].kind, threads[w].asset) :
                  metrics' = Recorded(threads[w].kind, anomaly)
            /\ write_batch
            /\ threads' = [threads EXCEPT ![w].pc = "poll", ![w].i = @ + 1]
            /\ UNCHANGED stateVars
    /\ UNCHANGED <<engineVars, ingestVars, assessVars, moreVars, stop_event, active_thread, baselines, detectors,
                   batch_detectors, latest_health, nthreads, nrequests, request>>

-----------------------------------------------------------------------------
(***************************************************************************)
(* The request handlers.                                                   *)
(***************************************************************************)
\* the guards of calibrate_system, inject_fault, reset_system, stop_session
calibrateAccepts(current_state) == current_state \in {IDLE}

injectAccepts(current_state) == current_state = MONITORING_HEALTHY

resetAccepts(current_state) == current_state \in {FAULT_INJECTION, MONITORING_HEALTHY}

stopAcceptsCalibrating(current_state) == current_state # IDLE

stopAccepts(current_state) == current_state # IDLE /\ current_state # CALIBRATING

Accepts(op, current_state) ==
    CASE op = "calibrate" -> calibrateAccepts(current_state)
      [] op = "inject_fault" -> injectAccepts(current_state)
      [] op = "reset" -> resetAccepts(current_state)
      [] op = "stop" -> stopAccepts(current_state)

\* A request arrives while no handler runs.
Call(op, asset, ft, sev) ==
    /\ request.pc = "idle"
    /\ nrequests < MaxRequests
    /\ nrequests' = nrequests + 1
    /\ request' = [NoRequest EXCEPT !.op = op, !.asset = asset, !.ft = ft, !.sev = sev,
                                    !.pc = CASE op = "purge" -> "sbt_set"
                                             [] op = "status" -> "status_read"
                                             [] OTHER -> "check"]
    /\ UNCHANGED <<engineVars, ingestVars, assessVars, moreVars, stateVars, stop_event, active_thread, metrics, storeVars,
                   latest_health, threads, nthreads>>

\* current_state = _state_manager.state; raise HTTPException(400) unless allowed
Check ==
    /\ request.pc = "check"
    /\ IF Accepts(request.op, system_state)
       THEN request' = [request EXCEPT !.pc = "sbt_set"]
       ELSE request' = [request EXCEPT !.pc = "return", !.status = "InvalidTransition"]
    /\ UNCHANGED <<engineVars, ingestVars, assessVars, moreVars, stateVars, stop_event, active_thread, metrics, storeVars,
                   latest_health, threads, nthreads, nrequests>>

\* stop_background_task: self._stop_event.set()
SbtSet ==
    /\ request.pc = "sbt_set"
    /\ stop_event' = TRUE
    /\ threads' = [w \in 1..MaxThreads |->
                     IF w = active_thread /\ is_alive(w)
                     THEN [threads[w] EXCEPT !.signalled = TRUE]
                     ELSE threads[w]]
    /\ request' = [request EXCEPT !.pc = "sbt_join"]
    /\ UNCHANGED <<engineVars, ingestVars, assessVars, moreVars, stateVars, active_thread, metrics, storeVars, latest_health,
                   nthreads, nrequests>>

\* stop_background_task: join(timeout=2.0) if the active thread is alive, which
\* returns when the thread has ended or when the timeout has passed; then
\* self._stop_event.clear()
SbtJoined ==
    /\ request.pc = "sbt_join"
    /\ ~is_alive(active_thread)
    /\ stop_event' = FALSE
    /\ request' = [request EXCEPT !.pc =
                      CASE request.op \in {"calibrate", "inject_fault", "reset"} -> "start"
                        [] request.op = "stop" -> "reset_metrics"
                        [] request.op = "purge" -> "delete_all"]
    /\ UNCHANGED <<engineVars, ingestVars, assessVars, moreVars, stateVars, active_thread, metrics, storeVars, latest_health,
                   threads, nthreads, nrequests>>

SbtJoinTimeout ==
    /\ request.pc = "sbt_join"
    /\ is_alive(active_thread)
    /\ stop_event' = FALSE
    /\ request' = [request EXCEPT !.pc =
                      CASE request.op \in {"calibrate", "inject_fault", "reset"} -> "start"
                        [] request.op = "stop" -> "reset_metrics"
                        [] request.op = "purge" -> "delete_all"]
    /\ UNCHANGED <<engineVars, ingestVars, assessVars, moreVars, stateVars, active_thread, metrics, storeVars, latest_health,
                   threads, nthreads, nrequests>>

\* inject_fault: set_state(FAULT_INJECTION, ..., fault_type, severity);
\* reset_system: set_state(MONITORING_HEALTHY, ...); and in all three
\* thread = threading.Thread(target=...); set_active_thread(thread); thread.start()
StartThread ==
    /\ request.pc = "start"
    /\ CASE request.op = "inject_fault" ->
               set_state(FAULT_INJECTION, "injecting", request.ft, request.sev)
         [] request.op = "reset" ->
               set_state(MONITORING_HEALTHY, "reset", NoneStr, NoneStr)
         [] request.op = "calibrate" -> UNCHANGED stateVars
    /\ nthreads' = nthreads + 1
    /\ active_thread' = nthreads + 1
    /\ threads' = [threads EXCEPT ![nthreads + 1] =
          [NoThread EXCEPT
              !.kind = CASE request.op = "calibrate" -> "calibration"
                         [] request.op = "inject_fault" -> "fault"
                         [] request.op = "reset" -> "resume",
              !.asset = request.asset,
              !.ft = request.ft,
              !.sev = request.sev,
              !.pc = IF request.op = "calibrate" THEN "reset_metrics" ELSE "poll",
              !.snap = IF request.op = "calibrate"
                       THEN <<Get(baselines, request.asset), Get(detectors, request.asset),
                              Get(batch_detectors, request.asset)>>
                       ELSE <<>>]]
    /\ request' = [request EXCEPT !.pc = "return",
                      !.status = CASE request.op = "calibrate" -> "started"
                                   [] request.op = "inject_fault" -> "started"
                                   [] request.op = "reset" -> "reset"]
    /\ UNCHANGED <<engineVars, ingestVars, assessVars, moreVars, stop_event, metrics, storeVars, latest_health, nrequests>>

\* stop_session / purge_and_recalibrate: reset_metrics(); set_training_samples(0)
HandlerResetMetrics ==
    /\ request.pc = "reset_metrics"
    /\ metrics' = ZeroMetrics
    /\ request' = [request EXCEPT !.pc = "set_idle"]
    /\ UNCHANGED <<engineVars, ingestVars, assessVars, moreVars, stateVars, stop_event, active_thread, storeVars, latest_health,
                   threads, nthreads, nrequests>>

\* _state_manager.set_state(SystemState.IDLE, ...)
HandlerSetIdle ==
    /\ request.pc = "set_idle"
    /\ set_state(IDLE, IF request.op = "stop" THEN "stopped" ELSE "purged",
                 NoneStr, NoneStr)
    /\ request' = [request EXCEPT !.pc = "return",
                      !.status = IF request.op = "stop" THEN "stopped" ELSE "purged"]
    /\ UNCHANGED <<engineVars, ingestVars, assessVars, moreVars, stop_event, active_thread, metrics, storeVars, latest_health,
                   threads, nthreads, nrequests>>

\* purge_and_recalibrate: db.delete_all(), a call to the external store, which
\* returns; _sensor_history.clear()
PurgeClearHistory ==
    /\ request.pc = "delete_all"
    /\ delete_all
    /\ sensor_history' = EmptyDict
    /\ request' = [request EXCEPT !.pc = "clear_models"]
    /\ UNCHANGED <<engineVars, ingestVars, assessVars, moreVars, stateVars, stop_event, active_thread, metrics, baselines, detectors,
                   batch_detectors, latest_health, threads, nthreads, nrequests>>

\* purge_and_recalibrate: _baselines.clear(); _detectors.clear();
\* _batch_detectors.clear()
PurgeClearModels ==
    /\ request.pc = "clear_models"
    /\ baselines' = EmptyDict
    /\ detectors' = EmptyDict
    /\ batch_detectors' = EmptyDict
    /\ request' = [request EXCEPT !.pc = "reset_metrics"]
    /\ UNCHANGED <<engineVars, ingestVars, assessVars, moreVars, stateVars, stop_event, active_thread, metrics, sensor_history,
                   latest_health, threads, nthreads, nrequests>>

\* get_health_status, up to baseline = _baselines[asset_id]
StatusRead ==
    /\ request.pc = "status_read"
    /\ IF request.asset \notin DOMAIN sensor_history \/ sensor_history[request.asset] = 0
       THEN request' = [request EXCEPT !.pc = "return", !.status = "NotFound"]
       ELSE IF request.asset \notin DOMAIN baselines
       THEN request' = [request EXCEPT !.pc = "return", !.status = "pending"]
       ELSE request' = [request EXCEPT !.pc = "status_detector",
                                       !.baseline = baselines[request.asset]]
    /\ UNCHANGED <<engineVars, ingestVars, assessVars, moreVars, stateVars, stop_event, active_thread, metrics, storeVars,
                   latest_health, threads, nthreads, nrequests>>

\* get_health_status: if asset_id in _detectors and _detectors[asset_id].is_trained
StatusDetector ==
    /\ request.pc = "status_detector"
    /\ request' = [request EXCEPT !.pc = "status_store",
                      !.observed = <<request.baseline, Get(detectors, request.asset)>>]
    /\ UNCHANGED <<engineVars, ingestVars, assessVars, moreVars, stateVars, stop_event, active_thread, metrics, storeVars,
                   latest_health, threads, nthreads, nrequests>>

\* get_health_status: _latest_health[asset_id] = report
StatusStore ==
    /\ request.pc = "status_store"
    /\ latest_health' = DictSet(latest_health, request.asset,
                                [baseline_id |-> request.baseline])
    /\ request' = [request EXCEPT !.pc = "return", !.status = "ok"]
    /\ UNCHANGED <<engineVars, ingestVars, assessVars, moreVars, stateVars, stop_event, active_thread, metrics, storeVars,
                   threads, nthreads, nrequests>>

\* the handler returns its response (or its HTTPException is delivered)
Return ==
    /\ request.pc = "return"
    /\ request' = NoRequest
    /\ UNCHANGED <<engineVars, ingestVars, assessVars, moreVars, stateVars, stop_event, active_thread, metrics, storeVars,
                   latest_health, threads, nthreads, nrequests>>

Worker(w) ==
    \/ CalResetMetrics(w)
    \/ CalSetCalibrating(w)
    \/ CalBurst(w)
    \/ CalBuildBaseline(w)
    \/ CalTrain(w)
    \/ CalSetMonitoring(w)
    \/ LoopPoll(w)
    \/ LoopTick(w)

LifecycleCall ==
    \/ \E a \in LifeAssets :
          \/ Call("calibrate", a, NoneStr, NoneStr)
          \/ \E ft \in FaultType, sev \in FaultSeverity : Call("inject_fault", a, ft, sev)
          \/ Call("reset", a, NoneStr, NoneStr)
    \/ Call("stop", "", NoneStr, NoneStr)
    \/ Call("purge", "", NoneStr, NoneStr)

StatusCall == \E a \in LifeAssets : Call("status", a, NoneStr, NoneStr)

\* the next step of a running lifecycle handler
LifecycleHandler ==
    \/ Check
    \/ SbtSet
    \/ SbtJoined
    \/ SbtJoinTimeout
    \/ StartThread
    \/ HandlerResetMetrics
    \/ HandlerSetIdle
    \/ PurgeClearHistory
    \/ PurgeClearModels
    \/ Return

\* the next step of a running get_health_status
StatusHandler ==
    \/ StatusRead
    \/ StatusDetector
    \/ StatusStore

Handler ==
    \/ LifecycleHandler
    \/ StatusHandler

-----------------------------------------------------------------------------
(***************************************************************************)
(* The sample history and the external store: simple_ingest and            *)
(* get_data_history (api/integration_routes.py) and what run_calibration,  *)
(* run_fault_injection and resume_healthy_monitoring (api/system_routes.py)*)
(* do to an asset's history and write to the store, one operation at a     *)
(* time.  A reading is its position in the order of appending and its      *)
(* is_faulty flag.                                                         *)
(***************************************************************************)
MaxIngest == 2

MaxAppended == 1300

INGEST_KEEP == 1000

\* get_data_history's limit: Query(default=100, ge=1, le=1000)
HistoryLimits == {1, 100, 1000}

\* the four signal fields of a persisted sample
SignalFields == {"voltage_v", "current_a", "power_factor", "vibration_g"}

NoResponse == [op |-> "none"]

\* s[-n:] for n > 0
Last(s, n) == IF Len(s) > n THEN SubSeq(s, Len(s) - n + 1, Len(s)) ELSE s

\* the next n readings of the asset, all flagged alike
NewReadings(a, n, flag) ==
    [i \in 1..n |-> [id |-> appended[a] + i, is_faulty |-> flag]]

IngestInit ==
    /\ history_rows = EmptyDict
    /\ appended = [a \in LifeAssets |-> 0]
    /\ points = {}
    /\ response = NoResponse
    /\ ningest = 0

\* simple_ingest(request): the flag from the range check against the baseline
\* when there is one, else the client's flag; append, write_point, trim
simple_ingest(asset_id, is_faulty, is_anomaly) ==
    /\ ningest < MaxIngest
    /\ appended[asset_id] < MaxAppended
    /\ LET held == IF asset_id \in DOMAIN history_rows THEN history_rows[asset_id]
                   ELSE <<>>
           detected_faulty == IF asset_id \in DOMAIN baselines THEN is_anomaly
                              ELSE is_faulty
           grown == held \o NewReadings(asset_id, 1, detected_faulty)
           kept == IF Len(grown) > INGEST_KEEP THEN Last(grown, INGEST_KEEP) ELSE grown
       IN /\ history_rows' = DictSet(history_rows, asset_id, kept)
          /\ sensor_history' = DictSet(sensor_history, asset_id, Len(kept))
          /\ response' = [op |-> "simple_ingest", asset_id |-> asset_id,
                          status |-> "accepted", sample_count |-> Len(kept)]
    /\ appended' = [appended EXCEPT ![asset_id] = @ + 1]
    /\ points' = points \cup
          {[source |-> "simple_ingest",
            tags |-> {"asset_id", "asset_type", "is_faulty"},
            fields |-> SignalFields]}
    /\ ningest' = ningest + 1
    /\ UNCHANGED <<engineVars, assessVars, moreVars, stateVars, stop_event, active_thread, metrics, baselines,
                   detectors, batch_detectors, latest_health, threads, nthreads,
                   nrequests, request>>

\* get_data_history(asset_id, limit)
get_data_history(asset_id, limit) ==
    /\ response' = IF asset_id \notin DOMAIN history_rows
                   THEN [op |-> "get_data_history", asset_id |-> asset_id,
                         limit |-> limit, data |-> <<>>, count |-> 0]
                   ELSE [op |-> "get_data_history", asset_id |-> asset_id,
                         limit |-> limit,
                         data |-> Last(history_rows[asset_id], limit),
                         count |-> Len(Last(history_rows[asset_id], limit))]
    /\ UNCHANGED <<engineVars, assessVars, moreVars, lifeVars, history_rows, appended, points, ningest>>

\* run_calibration, its burst and its baseline: BURST_SAMPLES readings are
\* generated, every tenth is written to the store, the last 100 become the
\* asset's history, and the baseline built of them is installed
StoreBurst(asset_id) ==
    /\ appended[asset_id] + BURST_SAMPLES <= MaxAppended
    /\ history_rows' = DictSet(history_rows, asset_id,
                               Last(NewReadings(asset_id, BURST_SAMPLES, FALSE),
                                    DISPLAY_KEEP))
    /\ sensor_history' = DictSet(sensor_history, asset_id, DISPLAY_KEEP)
    /\ appended' = [appended EXCEPT ![asset_id] = @ + BURST_SAMPLES]
    /\ points' = points \cup
          {[source |-> "calibration",
            tags |-> {"asset_id", "asset_type", "source"},
            fields |-> SignalFields \cup {"is_faulty"}]}
    /\ metrics' = [metrics EXCEPT !.training_samples = BURST_SAMPLES]
    /\ baselines' = DictSet(baselines, asset_id, 0)
    /\ UNCHANGED <<engineVars, assessVars, moreVars, stateVars, stop_event, active_thread, detectors,
                   batch_detectors, latest_health, threads, nthreads, nrequests,
                   request, response, ningest>>

\* the tags of the points a monitoring loop writes
TickTags(kind) ==
    IF kind = "fault"
    THEN {"asset_id", "asset_type", "source", "fault_type", "severity"}
    ELSE {"asset_id", "asset_type", "source"}

\* one tick of a monitoring loop on the history: BATCH readings, flagged with
\* the verdict on the window, are appended and written in one batch; the last
\* readings are kept.  A loop runs after a calibration: run_calibration's
\* follows its burst, and inject_fault and reset are accepted in the states a
\* completed calibration leads to.
StoreTick(asset_id, kind) ==
    /\ asset_id \in DOMAIN baselines
    /\ asset_id \in DOMAIN history_rows
    /\ appended[asset_id] + BATCH <= MaxAppended
    /\ \E anomaly \in Verdicts(kind, asset_id) :
          /\ LET keep == IF kind = "resume" THEN RESUME_KEEP ELSE DISPLAY_KEEP
                 grown == history_rows[asset_id] \o NewReadings(asset_id, BATCH, anomaly)
                 kept == IF Len(grown) > keep THEN Last(grown, keep) ELSE grown
             IN /\ history_rows' = [history_rows EXCEPT ![asset_id] = kept]
                /\ sensor_history' = [sensor_history EXCEPT ![asset_id] = Len(kept)]
          /\ metrics' = Recorded(kind, anomaly)
    /\ appended' = [appended EXCEPT ![asset_id] = @ + BATCH]
    /\ points' = points \cup
          {[source |-> kind, tags |-> TickTags(kind),
            fields |-> SignalFields \cup {"is_faulty"}]}
    /\ write_batch
    /\ UNCHANGED <<engineVars, assessVars, moreVars, stateVars, stop_event, active_thread, baselines,
                   detectors, batch_detectors, latest_health, threads, nthreads,
                   nrequests, request, response, ningest>>

-----------------------------------------------------------------------------
(***************************************************************************)
(* HealthAssessor (rules/assessor.py).  An anomaly score is a multiple of  *)
(* 1/Scale; the zone boundaries 0.15 = 3/20 and 0.35 = 7/20 are on the     *)
(* grid.  The health before rounding is the fraction HealthNum/HealthDen   *)
(* and round() rounds it to the nearest integer, a tie to the even one     *)
(* (on such a grid the floating-point values at the ties, x.5, are exact). *)
(***************************************************************************)
GridPerTwentieth == 5

Scale == 20 * GridPerTwentieth

\* how far out of [0, 1] the scores go, in grid steps
ScoreMargin == 10

Scores == (0 - ScoreMargin)..(Scale + ScoreMargin)

THRESHOLD_CRITICAL == 25

THRESHOLD_HIGH == 50

THRESHOLD_MODERATE == 75

RISK_LOW == "LOW"

RISK_MODERATE == "MODERATE"

RISK_HIGH == "HIGH"

RISK_CRITICAL == "CRITICAL"

\* feature_contributions: None or a dict of feature importances (its keys)
Contributions == {None, Some({"vibration_intensity_rms"})}

\* round(n / d) for n >= 0, d > 0: the nearest integer, a tie to the even one
RoundHalfEven(n, d) ==
    LET q == n \div d
        r == n % d
    IN IF 2 * r < d THEN q
       ELSE IF 2 * r > d THEN q + 1
       ELSE IF q % 2 = 0 THEN q ELSE q + 1

\* max(0.0, min(1.0, anomaly_score))
ClampScore(m) == IF m < 0 THEN 0 ELSE IF m > Scale THEN Scale ELSE m

\* a health mapping whose first zone falls from 100 to 70
computeHealthSteepBoost(m) ==
    LET c == ClampScore(m)
    IN IF 20 * c < 3 * Scale THEN RoundHalfEven(100 * Scale - 200 * c, Scale)
       ELSE IF 20 * c < 7 * Scale THEN RoundHalfEven(205 * Scale - 300 * c, 2 * Scale)
       ELSE RoundHalfEven(1000 * (Scale - c), 13 * Scale)

\* Health = 100 * (1 - anomaly_score), rounded
computeHealthLinear(m) == RoundHalfEven(100 * (Scale - ClampScore(m)), Scale)

\* the health before rounding, as a fraction of integers, for a clamped score c:
\* 100 - (c/0.15)*20,  80 - ((c-0.15)/0.20)*30,  50 - ((c-0.35)/0.65)*50
HealthNum(c) ==
    IF 20 * c < 3 * Scale THEN 300 * Scale - 400 * c
    ELSE IF 20 * c < 7 * Scale THEN 205 * Scale - 300 * c
    ELSE 1000 * (Scale - c)

HealthDen(c) ==
    IF 20 * c < 3 * Scale THEN 3 * Scale
    ELSE IF 20 * c < 7 * Scale THEN 2 * Scale
    ELSE 13 * Scale

\* HealthAssessor.compute_health_score: int(round(max(0, min(100, health))))
compute_health_score(m) ==
    LET c == ClampScore(m)
        n == HealthNum(c)
        d == HealthDen(c)
        bounded == IF n < 0 THEN 0 ELSE IF n > 100 * d THEN 100 * d ELSE n
    IN RoundHalfEven(bounded, d)

\* a classification that counts the threshold itself as CRITICAL
classifyInclusive(health_score) ==
    IF health_score <= THRESHOLD_CRITICAL THEN RISK_CRITICAL
    ELSE IF health_score < THRESHOLD_HIGH THEN RISK_HIGH
    ELSE IF health_score < THRESHOLD_MODERATE THEN RISK_MODERATE
    ELSE RISK_LOW

\* HealthAssessor.classify_risk_level
classify_risk_level(health_score) ==
    IF health_score < THRESHOLD_CRITICAL THEN RISK_CRITICAL
    ELSE IF health_score < THRESHOLD_HIGH THEN RISK_HIGH
    ELSE IF health_score < THRESHOLD_MODERATE THEN RISK_MODERATE
    ELSE RISK_LOW

\* HealthAssessor.estimate_rul: the midpoint of RUL_BY_RISK's range, in tenths
\* of a day
estimate_rul(risk_level) ==
    CASE risk_level = RISK_CRITICAL -> 5
      [] risk_level = RISK_HIGH -> 40
      [] risk_level = RISK_MODERATE -> 185
      [] risk_level = RISK_LOW -> 600

\* list(feature_contributions.keys()) if feature_contributions else []
RelatedFeatures(feature_contributions) ==
    IF feature_contributions = None THEN {} ELSE feature_contributions[1]

\* explanations that leave CRITICAL unexplained
generateExplanationsNoCritical(health_score, risk_level, anomaly_score, feature_contributions) ==
    IF risk_level = RISK_HIGH
    THEN <<[reason |-> "high", related_features |-> RelatedFeatures(feature_contributions),
            confidence_score |-> 85]>>
    ELSE <<>>

\* HealthAssessor.generate_explanations (confidence in hundredths)
generate_explanations(health_score, risk_level, anomaly_score, feature_contributions) ==
    CASE risk_level = RISK_CRITICAL ->
            <<[reason |-> "critical",
               related_features |-> RelatedFeatures(feature_contributions),
               confidence_score |-> 95]>>
      [] risk_level = RISK_HIGH ->
            <<[reason |-> "high",
               related_features |-> RelatedFeatures(feature_contributions),
               confidence_score |-> 85]>>
      [] risk_level = RISK_MODERATE ->
            <<[reason |-> "moderate", related_features |-> {},
               confidence_score |-> 70]>>
      [] OTHER -> <<>>

\* HealthAssessor.assess
assess(asset_id, anomaly_score, feature_contributions) ==
    LET health_score == compute_health_score(anomaly_score)
        risk_level == classify_risk_level(health_score)
    IN [asset_id |-> asset_id,
        health_score |-> health_score,
        risk_level |-> risk_level,
        maintenance_window_days |-> estimate_rul(risk_level),
        explanations |-> generate_explanations(health_score, risk_level,
                                               anomaly_score, feature_contributions)]

AssessInit ==
    /\ assess_args = None
    /\ report = None

\* a call of HealthAssessor.assess
Assess(asset_id, anomaly_score, feature_contributions) ==
    /\ assess_args' = Some([asset_id |-> asset_id, anomaly_score |-> anomaly_score,
                            feature_contributions |-> feature_contributions])
    /\ report' = Some(assess(asset_id, anomaly_score, feature_contributions))
    /\ UNCHANGED <<engineVars, lifeVars, ingestVars, moreVars>>

-----------------------------------------------------------------------------
(***************************************************************************)
(* _simple_range_check (api/integration_routes.py), the RangeFallback      *)
(* score.  Signal values are integers, in units of 0.001 (the floor of     *)
(* range_size is one unit).  A deviation, the average deviation and the    *)
(* score are exact fractions [n |-> numerator, d |-> denominator], d > 0.  *)
(***************************************************************************)
MaxReading == 75

SIGNALS == <<"voltage_v", "current_a", "power_factor", "vibration_g">>

MIN_RANGE == 1

SignalProfile(min, max) == [min |-> min, max |-> max]

\* baseline.signal_profiles: every signal observed in [20, 25]
WideProfiles == [s \in {SIGNALS[i] : i \in 1..4} |-> SignalProfile(20, 25)]

\* the voltage was constant during calibration: min = max
FlatProfiles == [WideProfiles EXCEPT !["voltage_v"] = SignalProfile(22, 22)]

\* a baseline built from data without the last two columns
PartialProfiles == [s \in {"voltage_v", "current_a"} |-> SignalProfile(20, 25)]

FullBaselines == {WideProfiles, FlatProfiles}

RangeBaselines == FullBaselines \cup {PartialProfiles}

\* the latest reading: a dict that may lack the vibration key
Reading(v, c, withVibration) ==
    [s \in {"voltage_v", "current_a", "power_factor"} \cup
           (IF withVibration THEN {"vibration_g"} ELSE {}) |->
        CASE s = "voltage_v" -> v
          [] s = "current_a" -> c
          [] OTHER -> 22]

\* the current in range or one unit above it, or the vibration key missing
RangeReadings ==
    {Reading(v, 22, TRUE) : v \in 0..MaxReading}
        \cup {Reading(v, 26, TRUE) : v \in 0..MaxReading}
        \cup {Reading(v, 22, FALSE) : v \in 0..MaxReading}

RECURSIVE GCD(_, _)
GCD(x, y) == IF y = 0 THEN x ELSE GCD(y, x % y)

\* the fraction n / d in lowest terms
Frac(n, d) ==
    LET g == GCD(IF n < 0 THEN 0 - n ELSE n, d)
    IN [n |-> n \div g, d |-> d \div g]

FracLess(x, y) == x.n * y.d < y.n * x.d

FracLeq(x, y) == x.n * y.d <= y.n * x.d

FracAdd(x, y) == Frac(x.n * y.d + y.n * x.d, x.d * y.d)

FracSub(x, y) == Frac(x.n * y.d - y.n * x.d, x.d * y.d)

\* latest.get(signal, 0)
LatestGet(latest, signal) == IF signal \in DOMAIN latest THEN latest[signal] ELSE 0

\* the deviation of one signal (lines 74-86)
Deviation(profile, current_value) ==
    LET size == profile.max - profile.min
        range_size == IF size < MIN_RANGE THEN MIN_RANGE ELSE size
    IN IF current_value < profile.min THEN Frac(profile.min - current_value, range_size)
       ELSE IF current_value > profile.max THEN Frac(current_value - profile.max, range_size)
       ELSE Frac(0, 1)

\* the loop over the signals (lines 68-89): total_deviation and deviation_count
\* after the first i signals
RECURSIVE RangeLoop(_, _, _)
RangeLoop(profiles, latest, i) ==
    IF i = 0 THEN [total_deviation |-> Frac(0, 1), deviation_count |-> 0]
    ELSE LET before == RangeLoop(profiles, latest, i - 1)
             signal == SIGNALS[i]
         IN IF signal \in DOMAIN profiles
            THEN [total_deviation |->
                      FracAdd(before.total_deviation,
                              Deviation(profiles[signal], LatestGet(latest, signal))),
                  deviation_count |-> before.deviation_count + 1]
            ELSE before

\* a mapping whose second zone starts at 0.10 instead of 0.15
rangeScoreWithDrop(avg) ==
    IF avg.n <= 0 THEN Frac(0, 1)
    ELSE IF 10 * avg.n < 3 * avg.d THEN Frac(avg.n, 2 * avg.d)
    ELSE IF avg.n < avg.d THEN Frac(30 * avg.n + avg.d, 100 * avg.d)
    ELSE IF 2 * avg.n < 5 * avg.d THEN Frac(20 * avg.n + 16 * avg.d, 100 * avg.d)
    ELSE IF 6 * avg.n + 51 * avg.d > 95 * avg.d THEN Frac(95, 100)
    ELSE Frac(6 * avg.n + 51 * avg.d, 100 * avg.d)

\* the graduated mapping of the average deviation (lines 102-115):
\* avg*0.5, 0.15 + (avg-0.3)*0.30, 0.36 + (avg-1.0)*0.20,
\* min(0.95, 0.66 + (avg-2.5)*0.06)
RangeScoreOf(avg) ==
    IF avg.n <= 0 THEN Frac(0, 1)
    ELSE IF 10 * avg.n < 3 * avg.d THEN Frac(avg.n, 2 * avg.d)
    ELSE IF avg.n < avg.d THEN Frac(30 * avg.n + 6 * avg.d, 100 * avg.d)
    ELSE IF 2 * avg.n < 5 * avg.d THEN Frac(20 * avg.n + 16 * avg.d, 100 * avg.d)
    ELSE IF 6 * avg.n + 51 * avg.d > 95 * avg.d THEN Frac(95, 100)
    ELSE Frac(6 * avg.n + 51 * avg.d, 100 * avg.d)

\* _simple_range_check(baseline, latest)
simple_range_check(profiles, latest) ==
    LET loop == RangeLoop(profiles, latest, 4)
    IN IF loop.deviation_count = 0 THEN Frac(0, 1)
       ELSE RangeScoreOf(Frac(loop.total_deviation.n,
                              loop.total_deviation.d * loop.deviation_count))

RangeInit ==
    /\ range_args = None
    /\ range_score = None

\* a call of _simple_range_check
RangeCheck(profiles, latest) ==
    /\ range_args' = Some([profiles |-> profiles, latest |-> latest])
    /\ range_score' = Some(simple_range_check(profiles, latest))
    /\ UNCHANGED <<engineVars, lifeVars, ingestVars, assessVars, statusVars, verdictVars, featureVars, persistVars, checkVars, readerVars, raceVars>>

-----------------------------------------------------------------------------
(***************************************************************************)
(* The scoring part of get_health_status (api/integration_routes.py        *)
(* 247-339): the range score, the detector's score or its fallback, the    *)
(* blend and the clamp.  One request is scored per behaviour.              *)
(***************************************************************************)
MLSteps == 10

\* detector.score_single returns a value clipped to [0, 1]
MLScores == {Frac(k, MLSteps) : k \in 0..MLSteps}

\* how the detector branch of the request goes (lines 288-315)
DetectorPaths ==
    {[kind |-> k] : k \in {"no_detector", "untrained", "short_history",
                           "missing_feature", "raised"}}
        \cup {[kind |-> "scored", value |-> m] : m \in MLScores}

FracScale(x, num, den) == Frac(x.n * num, x.d * den)

\* a detector branch that scores 0 when the detector cannot score
mlScoreZeroOnFailure(path, range_score_) ==
    IF path.kind = "scored" THEN path.value ELSE Frac(0, 1)

\* ml_score after lines 288-315
MLScoreOf(path, range_score_) ==
    IF path.kind = "scored" THEN path.value ELSE range_score_

\* the blend (lines 322-330) and the clamp (line 332)
BlendScores(ml_score, range_score_) ==
    LET blended ==
            IF FracLess(Frac(7, 10), ml_score) /\ FracLess(range_score_, Frac(4, 10))
            THEN FracAdd(FracScale(range_score_, 7, 10), FracScale(ml_score, 3, 10))
            ELSE IF FracLess(ml_score, Frac(2, 10)) /\ FracLess(Frac(3, 10), range_score_)
            THEN range_score_
            ELSE FracAdd(FracScale(range_score_, 6, 10), FracScale(ml_score, 4, 10))
    IN IF FracLess(blended, Frac(0, 1)) THEN Frac(0, 1)
       ELSE IF FracLess(Frac(98, 100), blended) THEN Frac(98, 100)
       ELSE blended

StatusInit ==
    /\ status_args = None
    /\ status_result = None

\* GET /status/{asset_id}: no data
StatusNotFound ==
    /\ status_args = None
    /\ status_args' = Some([has_history |-> FALSE])
    /\ status_result' = Some([kind |-> "not_found"])
    /\ UNCHANGED <<engineVars, lifeVars, ingestVars, assessVars, rangeVars, verdictVars, featureVars, persistVars, checkVars, readerVars, raceVars>>

\* GET /status/{asset_id}: data but no baseline yet
StatusPending(latest) ==
    /\ status_args = None
    /\ status_args' = Some([has_history |-> TRUE, has_baseline |-> FALSE, latest |-> latest])
    /\ status_result' = Some([kind |-> "default", health_score |-> 85])
    /\ UNCHANGED <<engineVars, lifeVars, ingestVars, assessVars, rangeVars, verdictVars, featureVars, persistVars, checkVars, readerVars, raceVars>>

\* GET /status/{asset_id}: the reading is scored and assessed
StatusScored(profiles, latest, path) ==
    /\ status_args = None
    /\ status_args' = Some([has_history |-> TRUE, has_baseline |-> TRUE,
                            profiles |-> profiles, latest |-> latest, path |-> path])
    /\ LET range_score_ == simple_range_check(profiles, latest)
           ml_score == MLScoreOf(path, range_score_)
       IN status_result' = Some([kind |-> "assessed",
                                 range_score |-> range_score_,
                                 ml_score |-> ml_score,
                                 anomaly_score |-> BlendScores(ml_score, range_score_)])
    /\ UNCHANGED <<engineVars, lifeVars, ingestVars, assessVars, rangeVars, verdictVars, featureVars, persistVars, checkVars, readerVars, raceVars>>

-----------------------------------------------------------------------------
(***************************************************************************)
(* The verdict of one tick (api/system_routes.py 473-495, 562-586,         *)
(* 778-799): the batch detector's score against the loop's threshold, or   *)
(* the range check of the window's last reading when no batch detector is  *)
(* trained.                                                                *)
(***************************************************************************)
LoopKinds == {"calibration", "fault", "resume"}

\* is_anomaly before the detector is asked (474, 563, 779)
DefaultVerdict(kind) == kind = "fault"

\* batch_score > 0.65, or > 0.5 in fault injection
ScoreVerdict(kind, batch_score) ==
    IF kind = "fault" THEN FracLess(Frac(5, 10), batch_score)
    ELSE FracLess(Frac(65, 100), batch_score)

\* the range check of the loops: some profiled signal of the last reading lies
\* outside [min - tolerance, max + tolerance], tolerance = 25% of the range
\* (50% in fault injection)
OutsideTolerance(kind, profiles, latest) ==
    \E s \in DOMAIN profiles :
        LET profile == profiles[s]
            size == profile.max - profile.min
        IN IF kind = "fault"
           THEN \/ 2 * latest[s] < 2 * profile.min - size
                \/ 2 * latest[s] > 2 * profile.max + size
           ELSE \/ 4 * latest[s] < 4 * profile.min - size
                \/ 4 * latest[s] > 4 * profile.max + size

\* the answers of the batch detector: it is missing or untrained, it raises,
\* or it returns a score
BatchAnswers ==
    {[kind |-> k] : k \in {"no_detector", "untrained", "raised"}}
        \cup {[kind |-> "scored", value |-> m] : m \in MLScores}

\* the baselines the asset can have: none, or one of the profiles
TickBaselines == {None} \cup {Some(b) : b \in RangeBaselines}

\* the last reading of the window: the voltage inside the range, outside it by
\* less than either tolerance, between the tolerances, beyond both
TickReadings == {Reading(v, 22, TRUE) : v \in {17, 18, 22, 26, 27, 28}}

\* is_batch_anomaly / is_anomaly of one tick
WindowVerdict(kind, answer, baseline, latest) ==
    IF answer.kind \in {"scored", "raised"}
    THEN IF answer.kind = "scored" THEN ScoreVerdict(kind, answer.value)
         ELSE DefaultVerdict(kind)
    ELSE IF baseline # None
    THEN DefaultVerdict(kind) \/ OutsideTolerance(kind, baseline[1], latest)
    ELSE DefaultVerdict(kind)

VerdictInit ==
    /\ window_args = None
    /\ window_verdict = None

\* the scoring and stamping of one window
StampWindow(kind, answer, baseline, latest) ==
    /\ window_args' = Some([kind |-> kind, answer |-> answer,
                            baseline |-> baseline, latest |-> latest])
    /\ window_verdict' = Some(WindowVerdict(kind, answer, baseline, latest))
    /\ UNCHANGED <<engineVars, lifeVars, ingestVars, assessVars, rangeVars, statusVars, featureVars, persistVars, checkVars, readerVars, raceVars>>

-----------------------------------------------------------------------------
(***************************************************************************)
(* Batch features (ml/batch_features.py) and the scoring of a raw window   *)
(* (ml/batch_detector.py).  A window is given by its number of points; a   *)
(* feature vector records the number of points it was computed from.       *)
(***************************************************************************)
MaxWindow == 25

MIN_BATCH_POINTS == 10

WindowSizes == {5, 10, 12}

FeatureVector(n) == [points |-> n]

\* extract_batch_features(raw_points): None when the batch is too small
extract_batch_features(n) ==
    IF n = 0 \/ n < MIN_BATCH_POINTS THEN None ELSE Some(FeatureVector(n))

\* extract_multi_window_features(raw_points, window_size): one vector per
\* window raw_points[start : start + window_size], start in
\* range(0, n - window_size + 1, window_size), that extract accepts
extract_multi_window_features(n, window_size) ==
    LET count == IF n >= window_size THEN n \div window_size ELSE 0
        feat == extract_batch_features(window_size)
    IN IF feat = None THEN <<>> ELSE [i \in 1..count |-> feat[1]]

\* what the trained model does with a vector: a calibrated score, or an
\* exception (a feature is NaN)
ModelAnswers == {[kind |-> "raised"]} \cup {[kind |-> "score", value |-> m] : m \in MLScores}

\* BatchAnomalyDetector.score_batch(features)
score_batch(is_trained, features, answer) ==
    IF ~is_trained THEN [kind |-> "raised"] ELSE answer

\* BatchAnomalyDetector.score_raw_batch(raw_points)
score_raw_batch(is_trained, n, answer) ==
    LET feats == extract_batch_features(n)
    IN IF feats = None THEN [kind |-> "score", value |-> Frac(0, 1)]
       ELSE score_batch(is_trained, feats[1], answer)

FeatureInit ==
    /\ feature_call = None
    /\ feature_result = None

ExtractWindow(n) ==
    /\ feature_call' = Some([op |-> "extract", n |-> n])
    /\ feature_result' = Some(extract_batch_features(n))
    /\ UNCHANGED <<engineVars, lifeVars, ingestVars, assessVars, rangeVars, statusVars, verdictVars, persistVars, checkVars, readerVars, raceVars>>

SliceWindows(n, window_size) ==
    /\ feature_call' = Some([op |-> "slice", n |-> n, window_size |-> window_size])
    /\ feature_result' = Some(extract_multi_window_features(n, window_size))
    /\ UNCHANGED <<engineVars, lifeVars, ingestVars, assessVars, rangeVars, statusVars, verdictVars, persistVars, checkVars, readerVars, raceVars>>

ScoreRawWindow(is_trained, n, answer) ==
    /\ feature_call' = Some([op |-> "score_raw", n |-> n, is_trained |-> is_trained])
    /\ feature_result' = Some(score_raw_batch(is_trained, n, answer))
    /\ UNCHANGED <<engineVars, lifeVars, ingestVars, assessVars, rangeVars, statusVars, verdictVars, persistVars, checkVars, readerVars, raceVars>>

-----------------------------------------------------------------------------
(***************************************************************************)
(* save_baseline / load_baseline (ml/baseline.py 248-286).  A baseline_id  *)
(* is a string of nine characters, a datetime is an instant, and the JSON  *)
(* form of a datetime is its ISO string.                                   *)
(***************************************************************************)
MaxSaves == 2

ID_PREFIX == 8

\* ids that differ in the first character, in the ninth, or in both
BaselineIds ==
    {<<first>> \o [i \in 1..7 |-> "0"] \o <<ninth>> : first \in {"a", "b"}, ninth \in {"a", "b"}}

IsoFormat(instant) == <<"iso", instant>>

ParseIso(text) == text[2]

\* BaselineProfile
Profile(baseline_id, asset_id, mean) ==
    [baseline_id |-> baseline_id,
     asset_id |-> asset_id,
     created_at |-> 7,
     training_window |-> [start |-> 1, end |-> 5, sample_count |-> 1000,
                          valid_sample_ratio |-> 1],
     signal_profiles |-> [s \in {SIGNALS[i] : i \in 1..4} |->
                              [mean |-> mean, std |-> 1, min |-> 20, max |-> 25,
                               sample_count |-> 1000]],
     feature_profiles |-> <<>>]

Profiles == {Profile(b, a, m) : b \in BaselineIds, a \in LifeAssets, m \in {22, 23}}

\* profile.model_dump(mode='json'): datetimes become ISO strings
model_dump(profile) ==
    [profile EXCEPT !.created_at = IsoFormat(@),
                    !.training_window.start = IsoFormat(@),
                    !.training_window.end = IsoFormat(@)]

\* BaselineProfile.model_validate(data): ISO strings are parsed
model_validate(data) ==
    [data EXCEPT !.created_at = ParseIso(@),
                 !.training_window.start = ParseIso(@),
                 !.training_window.end = ParseIso(@)]

\* f"baseline_{profile.asset_id}_{profile.baseline_id[:8]}.json"
Filename(profile) ==
    <<"baseline", profile.asset_id, SubSeq(profile.baseline_id, 1, ID_PREFIX), "json">>

PersistInit ==
    /\ files = <<>>
    /\ saved = {}
    /\ loaded = None

\* save_baseline(profile, directory)
SaveBaseline(profile) ==
    /\ Cardinality(saved) < MaxSaves
    /\ LET filepath == Filename(profile)
       IN /\ files' = [f \in DOMAIN files \cup {filepath} |->
                          IF f = filepath THEN model_dump(profile) ELSE files[f]]
          /\ saved' = saved \cup {[profile |-> profile, filepath |-> filepath]}
    /\ UNCHANGED loaded
    /\ UNCHANGED <<engineVars, lifeVars, ingestVars, assessVars, rangeVars, statusVars, verdictVars, featureVars, checkVars, readerVars, raceVars>>

\* load_baseline(filepath) of an existing file
LoadBaseline(filepath) ==
    /\ filepath \in DOMAIN files
    /\ loaded' = Some([filepath |-> filepath, profile |-> model_validate(files[filepath])])
    /\ UNCHANGED <<files, saved>>
    /\ UNCHANGED <<engineVars, lifeVars, ingestVars, assessVars, rangeVars, statusVars, verdictVars, featureVars, checkVars, readerVars, raceVars>>

-----------------------------------------------------------------------------
(***************************************************************************)
(* check_data_against_baseline (ml/validation.py).  The data is a frame of *)
(* up to MaxRows rows: a function from column names to sequences of equal  *)
(* length whose cells are integers or NaN.                                 *)
(***************************************************************************)
MaxRows == 2

\* a cell is <<value>>, or NaN when the value is missing
NaN == None

\* a value inside mean +- 1 std, inside +- 3 std only, outside both, missing
Cells == {Some(22), Some(24), Some(26), NaN}

CheckColumns == {"voltage_v", "current_a"}

Frames ==
    UNION {[cols -> [1..n -> Cells]] : cols \in SUBSET CheckColumns, n \in 0..MaxRows}

\* the profile the data is checked against: mean 22, std 1 for the voltage,
\* and a feature profile for the current
CheckProfile ==
    [signal_profiles |-> [s \in {"voltage_v"} |-> [mean |-> 22, std |-> 1]],
     feature_profiles |-> [s \in {"current_a"} |-> [mean |-> 22, std |-> 1]]]

SigmaMultipliers == {1, 3}

\* ValidationResult()
NewResult == [passed |-> TRUE, total_checks |-> 0, failed_checks |-> 0, violations |-> <<>>]

\* data.empty: no rows or no columns
FrameEmpty(data) == DOMAIN data = {} \/ \A c \in DOMAIN data : Len(data[c]) = 0

\* the loop body for one value (lines 133-138): add_pass(), total_checks += 1,
\* and add_violation when the value is out of bounds
CheckValue(result, column, value, lower, upper) ==
    LET counted == [result EXCEPT !.total_checks = @ + 1 + 1]
    IN IF value < lower \/ value > upper
       THEN [counted EXCEPT !.violations = Append(@, [column |-> column, value |-> value,
                                                      expected_min |-> lower,
                                                      expected_max |-> upper]),
                            !.failed_checks = @ + 1,
                            !.passed = FALSE]
       ELSE counted

\* series = data[col_name].dropna(); for idx, value in series.items(): ...
RECURSIVE CheckSeries(_, _, _, _, _, _)
CheckSeries(result, column, series, i, lower, upper) ==
    IF i > Len(series) THEN result
    ELSE CheckSeries(IF series[i] = NaN THEN result
                     ELSE CheckValue(result, column, series[i][1], lower, upper),
                     column, series, i + 1, lower, upper)

\* the loop over a dict of profiles (lines 122-138 and 141-156); columns in
\* the order of SIGNALS
RECURSIVE CheckProfiles(_, _, _, _, _)
CheckProfiles(result, data, profiles, sigma_multiplier, i) ==
    IF i > Len(SIGNALS) THEN result
    ELSE LET col_name == SIGNALS[i]
         IN CheckProfiles(
                IF col_name \in DOMAIN profiles /\ col_name \in DOMAIN data
                THEN CheckSeries(result, col_name, data[col_name], 1,
                                 profiles[col_name].mean - sigma_multiplier * profiles[col_name].std,
                                 profiles[col_name].mean + sigma_multiplier * profiles[col_name].std)
                ELSE result,
                data, profiles, sigma_multiplier, i + 1)

\* ValidationResult.pass_rate
pass_rate(result) ==
    IF result.total_checks = 0 THEN Frac(1, 1)
    ELSE Frac(result.total_checks - result.failed_checks, result.total_checks)

\* check_data_against_baseline(data, profile, sigma_multiplier)
check_data_against_baseline(data, profile, sigma_multiplier) ==
    IF FrameEmpty(data) THEN NewResult
    ELSE CheckProfiles(CheckProfiles(NewResult, data, profile.signal_profiles,
                                     sigma_multiplier, 1),
                       data, profile.feature_profiles, sigma_multiplier, 1)

CheckInit ==
    /\ check_args = None
    /\ check_result = None

\* a call of check_data_against_baseline and a read of pass_rate; the function
\* assigns to neither argument
CheckData(data, profile, sigma_multiplier) ==
    /\ check_args' = Some([data |-> data, profile |-> profile,
                           sigma_multiplier |-> sigma_multiplier])
    /\ LET result == check_data_against_baseline(data, profile, sigma_multiplier)
       IN check_result' = Some([result |-> result, pass_rate |-> pass_rate(result)])
    /\ UNCHANGED <<engineVars, lifeVars, ingestVars, assessVars, rangeVars, statusVars, verdictVars, featureVars, persistVars, readerVars, raceVars>>

-----------------------------------------------------------------------------
(***************************************************************************)
(* get_system_state (api/system_routes.py 634-646).  The handler reads the *)
(* manager's properties one after the other; each read takes the lock for  *)
(* itself (85-108).  It runs on the event loop, so no other handler runs   *)
(* during it, but the worker threads do.  fault_type and fault_severity    *)
(* are each read twice: once for the test, once for .value.  The read of   *)
(* started_at, between message and fault_type, is not modelled.            *)
(***************************************************************************)
\* the manager's values under the lock
ManagerValues ==
    [state |-> system_state, message |-> message,
     fault_type |-> fault_type, fault_severity |-> fault_severity]

ReaderInit ==
    /\ snap_pc = "idle"
    /\ snapshot = None
    /\ snap_seen = {}

\* no get_system_state is between two of its reads
ReaderQuiet == snap_pc \in {"idle", "done", "error"}

ReadStep(at, next, value) ==
    /\ snap_pc = at
    /\ snap_pc' = next
    /\ snapshot' = value
    /\ snap_seen' = snap_seen \cup {ManagerValues}
    /\ UNCHANGED <<engineVars, lifeVars, ingestVars, assessVars, raceVars>>

\* state=_state_manager.state.value; the request arrives while no handler runs
ReadState ==
    /\ request = NoRequest
    /\ ReadStep("idle", "message", Some([state |-> system_state]))
    /\ UNCHANGED <<rangeVars, statusVars, verdictVars, featureVars, persistVars, checkVars>>

\* message=_state_manager.message
ReadMessage ==
    /\ ReadStep("message", "fault_type", Some([state |-> snapshot[1].state, message |-> message]))
    /\ UNCHANGED <<rangeVars, statusVars, verdictVars, featureVars, persistVars, checkVars>>

\* ... if _state_manager.fault_type else None
ReadFaultTypeTest ==
    /\ IF fault_type = NoneStr
       THEN ReadStep("fault_type", "fault_severity",
                     Some([state |-> snapshot[1].state, message |-> snapshot[1].message,
                           fault_type |-> NoneStr]))
       ELSE ReadStep("fault_type", "fault_type_value", snapshot)
    /\ UNCHANGED <<rangeVars, statusVars, verdictVars, featureVars, persistVars, checkVars>>

\* _state_manager.fault_type.value: AttributeError when it is None by now
ReadFaultTypeValue ==
    /\ IF fault_type = NoneStr
       THEN ReadStep("fault_type_value", "error", snapshot)
       ELSE ReadStep("fault_type_value", "fault_severity",
                     Some([state |-> snapshot[1].state, message |-> snapshot[1].message,
                           fault_type |-> fault_type]))
    /\ UNCHANGED <<rangeVars, statusVars, verdictVars, featureVars, persistVars, checkVars>>

\* ... if _state_manager.fault_severity else None
ReadSeverityTest ==
    /\ IF fault_severity = NoneStr
       THEN ReadStep("fault_severity", "done",
                     Some([state |-> snapshot[1].state, message |-> snapshot[1].message,
                           fault_type |-> snapshot[1].fault_type,
                           fault_severity |-> NoneStr]))
       ELSE ReadStep("fault_severity", "fault_severity_value", snapshot)
    /\ UNCHANGED <<rangeVars, statusVars, verdictVars, featureVars, persistVars, checkVars>>

\* _state_manager.fault_severity.value
ReadSeverityValue ==
    /\ IF fault_severity = NoneStr
       THEN ReadStep("fault_severity_value", "error", snapshot)
       ELSE ReadStep("fault_severity_value", "done",
                     Some([state |-> snapshot[1].state, message |-> snapshot[1].message,
                           fault_type |-> snapshot[1].fault_type,
                           fault_severity |-> fault_severity]))
    /\ UNCHANGED <<rangeVars, statusVars, verdictVars, featureVars, persistVars, checkVars>>

get_system_state ==
    \/ ReadState
    \/ ReadMessage
    \/ ReadFaultTypeTest
    \/ ReadFaultTypeValue
    \/ ReadSeverityTest
    \/ ReadSeverityValue

(***************************************************************************)
(* simple_ingest (api/integration_routes.py) runs on the event loop while  *)
(* a monitoring loop of api/system_routes.py runs in its thread; both      *)
(* append to _sensor_history[asset_id] and rebind it to a slice of itself, *)
(* under no lock.  A worker reading is its number in the order of          *)
(* generation, the request's sample is IngestedSample.                     *)
(***************************************************************************)
IngestedSample == 0

\* the loops that tick: the one run_calibration ends in and the resumed one
TickKinds == {"healthy_monitoring", "resume_healthy"}

\* how many readings the loop's trim keeps
TickKeep(kind) == IF kind = "resume_healthy" THEN RESUME_KEEP ELSE DISPLAY_KEEP

Holds(list, reading) == \E i \in 1..Len(list) : list[i] = reading

\* a calibration has left its last DISPLAY_KEEP burst readings
RaceInit ==
    /\ live_history = [i \in 1..DISPLAY_KEEP |-> i]
    /\ tick_kind = "healthy_monitoring"
    /\ tick_pc = "off"
    /\ tick_i = 0
    /\ tick_slice = <<>>
    /\ post_pc = "idle"
    /\ post_slice = <<>>
    /\ post_response = None
    /\ newer = 0

\* the sample is in a list some thread has appended to
Posted == post_pc # "idle"

RaceFrame ==
    UNCHANGED <<engineVars, lifeVars, ingestVars, assessVars, rangeVars, statusVars, verdictVars, featureVars, persistVars, checkVars, readerVars>>

\* the loop generates raw_batch and settles its verdict
TickBegin(kind) ==
    /\ tick_pc = "off"
    /\ tick_kind' = kind
    /\ tick_pc' = "append"
    /\ UNCHANGED <<live_history, tick_i, tick_slice, post_pc, post_slice, post_response, newer>>
    /\ RaceFrame

\* _sensor_history[asset_id].append(reading), once for each reading
TickAppend ==
    /\ tick_pc = "append"
    /\ live_history' = Append(live_history, DISPLAY_KEEP + tick_i + 1)
    /\ tick_i' = tick_i + 1
    /\ tick_pc' = IF tick_i + 1 = BATCH THEN "write" ELSE "append"
    /\ newer' = IF Posted THEN newer + 1 ELSE newer
    /\ UNCHANGED <<tick_kind, tick_slice, post_pc, post_slice, post_response>>
    /\ RaceFrame

\* db.write_batch(...)
TickWrite ==
    /\ tick_pc = "write"
    /\ tick_pc' = "trim"
    /\ UNCHANGED <<live_history, tick_kind, tick_i, tick_slice, post_pc, post_slice, post_response, newer>>
    /\ RaceFrame

\* if len(h[a]) > keep: h[a] = h[a][-keep:], the slice and then the binding
TickTrim ==
    /\ \/ /\ tick_pc = "trim"
          /\ IF Len(live_history) > TickKeep(tick_kind)
             THEN /\ tick_slice' = Last(live_history, TickKeep(tick_kind))
                  /\ tick_pc' = "bind"
             ELSE /\ tick_pc' = "sleep"
                  /\ UNCHANGED tick_slice
          /\ UNCHANGED live_history
       \/ /\ tick_pc = "bind"
          /\ live_history' = tick_slice
          /\ tick_pc' = "sleep"
          /\ UNCHANGED tick_slice
    /\ UNCHANGED <<tick_kind, tick_i, post_pc, post_slice, post_response, newer>>
    /\ RaceFrame

\* _sensor_history[request.asset_id].append(reading)
PostAppend ==
    /\ post_pc = "idle"
    /\ live_history' = Append(live_history, IngestedSample)
    /\ post_pc' = "write"
    /\ UNCHANGED <<tick_kind, tick_pc, tick_i, tick_slice, post_slice, post_response, newer>>
    /\ RaceFrame

\* db.write_point(...)
PostWrite ==
    /\ post_pc = "write"
    /\ post_pc' = "trim"
    /\ UNCHANGED <<live_history, tick_kind, tick_pc, tick_i, tick_slice, post_slice, post_response, newer>>
    /\ RaceFrame

\* if len(h[a]) > 1000: h[a] = h[a][-1000:], the slice and then the binding
PostTrim ==
    /\ \/ /\ post_pc = "trim"
          /\ IF Len(live_history) > INGEST_KEEP
             THEN /\ post_slice' = Last(live_history, INGEST_KEEP)
                  /\ post_pc' = "bind"
             ELSE /\ post_pc' = "return"
                  /\ UNCHANGED post_slice
          /\ UNCHANGED live_history
       \/ /\ post_pc = "bind"
          /\ live_history' = post_slice
          /\ post_pc' = "return"
          /\ UNCHANGED post_slice
    /\ UNCHANGED <<tick_kind, tick_pc, tick_i, tick_slice, post_response, newer>>
    /\ RaceFrame

\* return {"status": "accepted", "sample_count": len(_sensor_history[...])}
PostReturn ==
    /\ post_pc = "return"
    /\ post_response' = Some([status |-> "accepted",
                              sample_count |-> Len(live_history),
                              counted |-> Holds(live_history, IngestedSample),
                              newer |-> newer])
    /\ post_pc' = "done"
    /\ UNCHANGED <<live_history, tick_kind, tick_pc, tick_i, tick_slice, post_slice, newer>>
    /\ RaceFrame

vars == <<engineVars, lifeVars, ingestVars, assessVars, moreVars>>

MoreInit == RangeInit /\ StatusInit /\ VerdictInit /\ FeatureInit /\ PersistInit /\ CheckInit /\ ReaderInit /\ RaceInit

Init == EngineInit /\ LifeInit /\ IngestInit /\ AssessInit /\ MoreInit

NextEvaluate == \E a \in Assets, f \in BOOLEAN : Evaluate(a, f)

NextEngine ==
    \/ \E a \in Assets, f \in BOOLEAN : Evaluate(a, f)
    \/ \E a \in Assets : ResetAsset(a)
    \/ ResetAll

Next ==
    \/ \E w \in 1..MaxThreads : Worker(w)
    \/ LifecycleCall
    \/ StatusCall
    \/ Handler

\* Sequences of evaluate calls only.
SpecEvaluate == Init /\ [][NextEvaluate]_vars

\* Every sequence of EventEngine operations.
SpecEngine == Init /\ [][NextEngine]_vars

NextEngineFirstAsset ==
    \/ \E f \in BOOLEAN : EvaluateFirstAsset(f)
    \/ ResetAsset("Motor-01")
    \/ ResetAll

\* One asset's evaluate calls with resets of its tracker in between.
SpecEngineFirstAsset == Init /\ [][NextEngineFirstAsset]_vars

NextAssess ==
    \E a \in LifeAssets, m \in Scores, c \in Contributions : Assess(a, m, c)

\* Calls of HealthAssessor.assess.
SpecAssess == Init /\ [][NextAssess]_vars

NextRange == \E b \in RangeBaselines, l \in RangeReadings : RangeCheck(b, l)

\* Calls of _simple_range_check.
SpecRange == Init /\ [][NextRange]_vars

NextStatusScore ==
    \/ StatusNotFound
    \/ \E l \in RangeReadings : StatusPending(l)
    \/ \E b \in RangeBaselines, l \in RangeReadings, p \in DetectorPaths : StatusScored(b, l, p)

\* One get_health_status request, scored.
SpecStatusScore == Init /\ [][NextStatusScore]_vars

NextVerdict ==
    \E k \in LoopKinds, a \in BatchAnswers, b \in TickBaselines, l \in TickReadings :
        StampWindow(k, a, b, l)

\* The verdicts of the monitoring loops.
SpecVerdict == Init /\ [][NextVerdict]_vars

NextFeatures ==
    \/ \E n \in 0..MaxWindow : ExtractWindow(n)
    \/ \E n \in 0..MaxWindow, ws \in WindowSizes : SliceWindows(n, ws)
    \/ \E t \in BOOLEAN, n \in 0..MaxWindow, a \in ModelAnswers : ScoreRawWindow(t, n, a)

\* Calls of the batch feature functions and of score_raw_batch.
SpecFeatures == Init /\ [][NextFeatures]_vars

NextPersist ==
    \/ \E p \in Profiles : SaveBaseline(p)
    \/ \E f \in DOMAIN files : LoadBaseline(f)

\* Saves and loads of baselines in one directory.
SpecPersist == Init /\ [][NextPersist]_vars

NextCheck ==
    \E d \in Frames, k \in SigmaMultipliers : CheckData(d, CheckProfile, k)

\* Calls of check_data_against_baseline.
SpecCheck == Init /\ [][NextCheck]_vars

NextSnapshot ==
    \/ \E w \in 1..MaxThreads : Worker(w)
    \/ (ReaderQuiet /\ nrequests < MaxLiveRequests /\ LifecycleCall)
    \/ LifecycleHandler
    \/ ReadState
    \/ ReadMessage
    \/ ReadFaultTypeTest
    \/ ReadFaultTypeValue
    \/ ReadSeverityTest
    \/ ReadSeverityValue

\* The lifecycle controller with one GET /system/state request among the workers.
SpecSnapshot == Init /\ [][NextSnapshot]_vars

NextRace ==
    \/ \E kind \in TickKinds : TickBegin(kind)
    \/ TickAppend
    \/ TickWrite
    \/ TickTrim
    \/ PostAppend
    \/ PostWrite
    \/ PostTrim
    \/ PostReturn

\* one simple_ingest request against one tick of a monitoring loop
SpecRace == Init /\ [][NextRace]_vars

NextStore ==
    \/ \E a \in LifeAssets, f \in BOOLEAN, r \in BOOLEAN : simple_ingest(a, f, r)
    \/ \E a \in LifeAssets, l \in HistoryLimits : get_data_history(a, l)
    \/ \E a \in LifeAssets : StoreBurst(a)
    \/ \E a \in LifeAssets, k \in {"calibration", "fault", "resume"} : StoreTick(a, k)

\* The operations on the sample history and the external store, in sequence.
SpecStore == Init /\ [][NextStore]_vars

\* The lifecycle controller: the handlers and the workers they start.
Spec == Init /\ [][Next]_vars

\* The lifecycle requests alone, MaxLiveRequests of them, and the workers.
NextLive ==
    \/ \E w \in 1..MaxThreads : Worker(w)
    \/ (nrequests < MaxLiveRequests /\ LifecycleCall)
    \/ LifecycleHandler

\* The lifecycle controller under fair scheduling of the worker threads: a
\* started thread that can take a step eventually takes one (the store calls
\* in it return).
FairSpec ==
    Init /\ [][NextLive]_vars /\ \A w \in 1..MaxThreads : WF_vars(Worker(w))

-----------------------------------------------------------------------------
(***************************************************************************)
(* EventEngine: properties                                                 *)
(***************************************************************************)

\* The sustained transitions of an is_faulty input: the positions where a
\* value differing from its predecessor's predecessor is repeated.
Sustained(s) ==
    Cardinality({i \in 3..Len(s) : s[i] = s[i-1] /\ s[i-1] # s[i-2]})

EventTypesAlternate(a) ==
    /\ \A i \in 1..Len(emitted[a]) :
          emitted[a][i] \in {EVENT_ANOMALY_DETECTED, EVENT_ANOMALY_CLEARED}
    /\ \A i \in 1..(Len(emitted[a]) - 1) : emitted[a][i] # emitted[a][i+1]

\* An evaluate call of one asset leaves every other asset's tracker and
\* emitted events as they were.
OtherAssetsUntouched ==
    \A a \in Assets :
        inputs'[a] # inputs[a] =>
            \A b \in Assets \ {a} :
                /\ emitted'[b] = emitted[b]
                /\ inputs'[b] = inputs[b]
                /\ (b \in DOMAIN states) = (b \in DOMAIN states')
                /\ b \in DOMAIN states => states'[b] = states[b]

\* C1: under evaluate calls only, interleaved over the assets, the events
\* emitted for an asset strictly alternate between ANOMALY_DETECTED and
\* ANOMALY_CLEARED, there are at most as many as sustained transitions in the
\* asset's own is_faulty input, assets fed the same input have emitted the
\* same events, and a call for one asset changes nothing of another asset.
C1_AlternatingEvents ==
    /\ [](\A a \in Assets :
             /\ EventTypesAlternate(a)
             /\ Len(emitted[a]) <= Sustained(inputs[a])
             /\ \A b \in Assets : inputs[a] = inputs[b] => emitted[a] = emitted[b])
    /\ [][OtherAssetsUntouched]_vars

\* Both assets have emitted a DETECTED and then a CLEARED event (or the
\* reverse) out of interleaved calls with different inputs.
C1_Witness ==
    /\ Len(emitted["Motor-01"]) >= 2
    /\ Len(emitted["Motor-02"]) >= 1
    /\ inputs["Motor-01"] # inputs["Motor-02"]
    /\ emitted["Motor-01"][1] # emitted["Motor-02"][1]

\* The last call found a seeded tracker whose previous_is_faulty differs from
\* the is_faulty of this call and of the call before it for the same asset.
SustainedChange ==
    /\ call.tracked
    /\ call.before.previous_is_faulty # None
    /\ Some(call.is_faulty) # call.before.previous_is_faulty
    /\ call.preceding # None
    /\ call.preceding # call.before.previous_is_faulty

FirstObservation ==
    /\ call.asset # ""
    /\ (~call.tracked \/ call.before.previous_is_faulty = None)

\* C3: the first evaluate call for an asset (no tracker, also after a reset)
\* returns no event whatever is_faulty is, and seeds previous_is_faulty with it.
C3_FirstCallSeeds ==
    FirstObservation =>
        /\ call.result = <<>>
        /\ call.after.previous_is_faulty = Some(call.is_faulty)
        /\ call.after.consecutive_faulty = 0
        /\ call.after.consecutive_healthy = 0

\* A first observation with is_faulty true, made after a reset of a tracker
\* that had emitted an event.
C3_Witness ==
    /\ FirstObservation
    /\ call.is_faulty
    /\ Len(inputs[call.asset]) >= 4
    /\ emitted[call.asset] # <<>>

-----------------------------------------------------------------------------
(***************************************************************************)
(* Lifecycle controller: properties                                        *)
(***************************************************************************)

\* the states in which the lifecycle contract allows each guarded operation
AllowedStates(op) ==
    CASE op = "calibrate" -> {IDLE}
      [] op = "inject_fault" -> {MONITORING_HEALTHY}
      [] op = "reset" -> {FAULT_INJECTION, MONITORING_HEALTHY}
      [] op = "stop" -> {MONITORING_HEALTHY, FAULT_INJECTION}

\* the step in which a handler decides on its guard
GuardDecided == request.pc = "check" /\ request'.pc # "check"

GuardStep ==
    GuardDecided =>
       IF system_state \in AllowedStates(request.op)
       THEN request'.pc = "sbt_set"
       ELSE /\ request'.pc = "return"
            /\ request'.status = "InvalidTransition"
            /\ UNCHANGED <<system_state, message, active_thread, fault_type,
                           fault_severity, metrics>>

\* C4: calibrate is accepted only in IDLE, inject_fault only in
\* MONITORING_HEALTHY, reset only in FAULT_INJECTION or MONITORING_HEALTHY, stop
\* only in MONITORING_HEALTHY or FAULT_INJECTION, purge in every state; an
\* operation invoked in another state is rejected with InvalidTransition and
\* its rejection leaves SystemState, the message, the active worker, the fault
\* kind and severity and the metrics unchanged.
C4_GuardedOperations ==
    /\ [](request.op = "purge" => request.status # "InvalidTransition")
    /\ [][GuardStep]_vars

\* a stop was rejected while a calibration is running
C4_Witness ==
    /\ request.op = "stop"
    /\ request.pc = "return"
    /\ request.status = "InvalidTransition"
    /\ system_state = CALIBRATING

\* the SystemState changes of the lifecycle contract
AllowedTransitions ==
    {<<IDLE, CALIBRATING>>, <<CALIBRATING, MONITORING_HEALTHY>>, <<CALIBRATING, IDLE>>,
     <<MONITORING_HEALTHY, FAULT_INJECTION>>, <<FAULT_INJECTION, MONITORING_HEALTHY>>,
     <<MONITORING_HEALTHY, IDLE>>, <<FAULT_INJECTION, IDLE>>}

\* C5: every change of SystemState is one of IDLE->CALIBRATING,
\* CALIBRATING->MONITORING_HEALTHY, CALIBRATING->IDLE,
\* MONITORING_HEALTHY->FAULT_INJECTION, FAULT_INJECTION->MONITORING_HEALTHY,
\* MONITORING_HEALTHY or FAULT_INJECTION->IDLE, any->IDLE.
C5_OnlyAllowedTransitions ==
    [][system_state' # system_state =>
          <<system_state, system_state'>> \in AllowedTransitions]_vars

\* the worker w passes the poll of its loop and begins another tick
BeginsTick(w) == threads[w].pc = "poll" /\ threads'[w].pc = "tick"

\* C6: once calibrate, inject_fault or reset has started a new worker, no
\* worker started before it begins another tick: a worker that begins a tick
\* is the most recently started one.
C6_OnlyNewestWorkerTicks ==
    [][\A w \in 1..MaxThreads : BeginsTick(w) => w = nthreads]_vars

\* the asset holds readings (an empty list is no history: get_health_status
\* answers 404 for it as for a missing key)
HasHistory(a) == a \in DOMAIN sensor_history /\ sensor_history[a] > 0

\* C7: when purge returns SystemState is IDLE, no asset has a sensor history, a
\* baseline, a legacy detector, a batch detector or a cached HealthReport, and
\* training_samples and the four validation counters are 0.
C7_PurgeLeavesNothing ==
    (request.op = "purge" /\ request.pc = "return") =>
       /\ system_state = IDLE
       /\ \A a \in LifeAssets : ~HasHistory(a)
       /\ baselines = EmptyDict
       /\ detectors = EmptyDict
       /\ batch_detectors = EmptyDict
       /\ latest_health = EmptyDict
       /\ metrics = ZeroMetrics

\* the calibration worker w ends in its except clause
CalibrationFails(w) ==
    /\ threads[w].kind = "calibration"
    /\ is_alive(w)
    /\ threads'[w].pc = "done"
    /\ message' = "calibration_failed"

\* C8: when the calibration worker raises, SystemState becomes IDLE with the
\* failure message and the asset's baseline, legacy detector and batch
\* detector are those that were installed before the calibrate call.
C8_FailedCycleInstallsNothing ==
    [][\A w \in 1..MaxThreads :
          CalibrationFails(w) =>
             /\ system_state' = IDLE
             /\ <<Get(baselines', threads[w].asset),
                  Get(detectors', threads[w].asset),
                  Get(batch_detectors', threads[w].asset)>> = threads[w].snap]_vars

\* C9: the baseline and the detector a reader of the health status gets are of
\* the same calibration cycle, and the detector it gets is trained.
C9_ReaderSeesOneCycle ==
    (request.observed # <<>> /\ request.observed[2] # None) =>
       /\ request.observed[2][1].cycle = request.observed[1]
       /\ request.observed[2][1].is_trained

\* C10: a worker that stop_background_task has signalled leaves its loop at
\* the next poll: it begins no tick after the signal.
C10_SignalledWorkerStops ==
    [][\A w \in 1..MaxThreads : threads[w].signalled => ~BeginsTick(w)]_vars

\* C11: CALIBRATING is never permanent: with the calibration worker scheduled
\* fairly, a CALIBRATING SystemState is followed by MONITORING_HEALTHY or IDLE.
C11_CalibratingEnds ==
    (system_state = CALIBRATING) ~> (system_state \in {MONITORING_HEALTHY, IDLE})

\* a calibration cycle has run to its completion and monitors
C11_Witness ==
    /\ system_state = MONITORING_HEALTHY
    /\ message = "complete"
    /\ \E w \in 1..MaxThreads : threads[w].kind = "calibration" /\ threads[w].pc = "poll"

\* the worker w is in its calibration cycle (it has not reached the monitoring
\* loop and has not ended)
InCalibrationCycle(w) ==
    /\ threads[w].kind = "calibration"
    /\ threads[w].pc \in {"reset_metrics", "set_calibrating", "burst",
                          "build_baseline", "train", "set_monitoring"}

\* C12: when an accepted calibrate returns, SystemState is the CALIBRATING its
\* response reports, and no calibrate is accepted while the calibration cycle
\* of an earlier accepted calibrate is running.
C12_CalibratingOnReturn ==
    /\ (request.op = "calibrate" /\ request.pc = "return" /\ request.status = "started")
          => system_state = CALIBRATING
    /\ (request.op = "calibrate" /\ request.pc = "sbt_set")
          => ~\E w \in 1..MaxThreads : InCalibrationCycle(w)

\* the calibration worker w enters CALIBRATING
EntersCalibrating(w) ==
    /\ threads[w].kind = "calibration"
    /\ threads[w].pc = "set_calibrating"
    /\ threads'[w].pc = "burst"

\* stop or purge is about to return its response
StopOrPurgeReturns ==
    /\ request.op \in {"stop", "purge"}
    /\ request.pc = "return"
    /\ request.status \in {"stopped", "purged"}

\* C13: training_samples and the four validation counters are 0 when stop
\* returns, when purge returns, and when a calibration worker enters
\* CALIBRATING.
C13_MetricsZeroed ==
    /\ [](StopOrPurgeReturns => metrics = ZeroMetrics)
    /\ [][\A w \in 1..MaxThreads : EntersCalibrating(w) => metrics' = ZeroMetrics]_vars

-----------------------------------------------------------------------------
(***************************************************************************)
(* Sample history and external store: properties                           *)
(***************************************************************************)

\* a simple_ingest call is accepted in this step
IngestAccepted == ningest' = ningest + 1

\* the reading the accepted call has stored
StoredReading ==
    LET rows == history_rows'[response'.asset_id] IN rows[Len(rows)]

\* C14: an accepted ingest call runs EventEngine.evaluate once for its asset
\* with the is_faulty flag stored for the sample, and its response carries the
\* events that call returned.
C14_IngestEvaluates ==
    [][IngestAccepted =>
          /\ inputs'[response'.asset_id] =
                Append(inputs[response'.asset_id], StoredReading.is_faulty)
          /\ "events" \in DOMAIN response'
          /\ response'.events = call'.result]_vars

\* C15: every point persisted to the external store has is_faulty among its
\* fields and not among its tags.
C15_FaultFlagIsField ==
    \A p \in points : "is_faulty" \in p.fields /\ "is_faulty" \notin p.tags

Min(x, y) == IF x < y THEN x ELSE y

\* the asset's history is the most recent Min(k, 1000) of the k readings
\* appended to it, in the order of appending
HoldsMostRecent(a) ==
    LET k == appended[a]
        n == Min(k, 1000)
    IN /\ Len(history_rows[a]) = n
       /\ \A i \in 1..n : history_rows[a][i].id = k - n + i

\* C16: the history of an asset holds exactly the most recent min(k, 1000) of
\* the k readings appended to it, in order, and get_history(limit) returns the
\* last min(limit, size) of them.
C16_HistoryIsRing ==
    /\ \A a \in DOMAIN history_rows : HoldsMostRecent(a)
    /\ (response.op = "get_data_history" /\ response.asset_id \in DOMAIN history_rows)
          => /\ response.count = Min(response.limit, Len(history_rows[response.asset_id]))
             /\ response.data = Last(history_rows[response.asset_id], response.limit)


-----------------------------------------------------------------------------
\* the arguments and the result of the last assess call
Assessed == report # None

ScoreOf(args) == args[1].anomaly_score

InUnit(m) == m >= 0 /\ m <= Scale

C17_Pointwise ==
    Assessed =>
        LET m == ScoreOf(assess_args)
            h == report[1].health_score
        IN /\ h \in 0..100
           /\ (m <= 0 => h = 100)
           /\ (20 * m = 3 * Scale => h = 80)
           /\ (20 * m = 7 * Scale => h = 50)
           /\ (m >= Scale => h = 0)

\* of two consecutive assessments of scores in [0, 1], the one of the higher
\* score has no higher health
C17_Step ==
    (Assessed /\ report' # None /\ InUnit(ScoreOf(assess_args))
       /\ InUnit(ScoreOf(assess_args')) /\ ScoreOf(assess_args) < ScoreOf(assess_args'))
        => report[1].health_score >= report'[1].health_score

RiskRank(risk_level) ==
    CASE risk_level = RISK_LOW -> 0
      [] risk_level = RISK_MODERATE -> 1
      [] risk_level = RISK_HIGH -> 2
      [] risk_level = RISK_CRITICAL -> 3

C18_Thresholds ==
    Assessed =>
        LET m == ScoreOf(assess_args)
            h == report[1].health_score
            r == report[1].risk_level
        IN /\ (r = RISK_CRITICAL <=> h < 25)
           /\ (r = RISK_HIGH <=> (25 <= h /\ h < 50))
           /\ (r = RISK_MODERATE <=> (50 <= h /\ h < 75))
           /\ (r = RISK_LOW <=> h >= 75)
           /\ (m = 0 => r = RISK_LOW)
           /\ (m = Scale => r = RISK_CRITICAL)

\* of two consecutive assessments, the one of the higher score has no lower risk
C18_Step ==
    (Assessed /\ report' # None /\ ScoreOf(assess_args) < ScoreOf(assess_args'))
        => RiskRank(report[1].risk_level) <= RiskRank(report'[1].risk_level)

\* C18: the risk level is CRITICAL for health < 25, HIGH for 25 <= health < 50,
\* MODERATE for 50 <= health < 75 and LOW for health >= 75; a higher anomaly
\* score never yields a lower risk level (LOW < MODERATE < HIGH < CRITICAL);
\* score 0 gives LOW and score 1 gives CRITICAL.
C18_RiskByThresholds == []C18_Thresholds /\ [][C18_Step]_vars

\* a health score on the CRITICAL threshold itself was classified: it is HIGH
C18_Witness ==
    /\ Assessed
    /\ report[1].health_score = THRESHOLD_CRITICAL
    /\ report[1].risk_level = RISK_HIGH

\* C19: every report of assess whose risk level is CRITICAL contains at least
\* one explanation, for every anomaly score and with or without feature
\* contributions; a LOW report has none.
C19_CriticalIsExplained ==
    Assessed =>
        /\ (report[1].risk_level = RISK_CRITICAL => Len(report[1].explanations) >= 1)
        /\ (report[1].risk_level = RISK_LOW => Len(report[1].explanations) = 0)

\* a CRITICAL report of a call without feature contributions, with its explanation
C19_Witness ==
    /\ Assessed
    /\ report[1].risk_level = RISK_CRITICAL
    /\ assess_args[1].feature_contributions = None
    /\ Len(report[1].explanations) = 1
    /\ report[1].explanations[1].related_features = {}

\* the health of a score in [0, 1] is the integer nearest to 100 * (1 - score)
C20_Linear ==
    (Assessed /\ InUnit(ScoreOf(assess_args))) =>
        LET d == report[1].health_score * Scale - 100 * (Scale - ScoreOf(assess_args))
        IN 2 * d <= Scale /\ 2 * (0 - d) <= Scale

\* a repeated call with the same arguments returns the same report
C20_Step ==
    (Assessed /\ assess_args' = assess_args) => report' = report

\* C20: the health score of every anomaly score a in [0, 1] is 100 * (1 - a) as
\* an integer (0.25 -> 75, 0.3 -> 70, 0.5 -> 50), and repeated calls with the
\* same input give the same output.
C20_HealthIsLinear == []C20_Linear /\ [][C20_Step]_vars


-----------------------------------------------------------------------------
FracMax(x, y) == IF FracLess(x, y) THEN y ELSE x

\* deviation = max(0, (min - x)/range, (x - max)/range), range floored at 0.001
ClaimedDeviation(profile, x) ==
    LET size == profile.max - profile.min
        range == IF size < 1 THEN 1 ELSE size
    IN FracMax(Frac(0, 1), FracMax(Frac(profile.min - x, range), Frac(x - profile.max, range)))

\* the average of the deviation over the four signals
ClaimedAverage(args) ==
    LET dev(i) == ClaimedDeviation(args.profiles[SIGNALS[i]], LatestGet(args.latest, SIGNALS[i]))
        sum == FracAdd(FracAdd(dev(1), dev(2)), FracAdd(dev(3), dev(4)))
    IN Frac(sum.n, 4 * sum.d)

AllWithinRange(args) ==
    \A s \in DOMAIN args.profiles :
        /\ s \in DOMAIN args.latest
        /\ args.profiles[s].min <= args.latest[s]
        /\ args.latest[s] <= args.profiles[s].max

RangeChecked == range_score # None

C21_Pointwise ==
    RangeChecked =>
        /\ FracLeq(Frac(0, 1), range_score[1])
        /\ FracLeq(range_score[1], Frac(95, 100))
        /\ (AllWithinRange(range_args[1]) => range_score[1].n = 0)

\* a fraction of the checks in whole units of 1/den
Units(x, den) == (x.n * den) \div x.d

\* every average is a multiple of 1/20 and every score a multiple of 1/2000
AverageDen == 4 * (WideProfiles["voltage_v"].max - WideProfiles["voltage_v"].min)

ScoreDen == 100 * AverageDen

\* of two consecutive checks against baselines that profile the four signals,
\* the one with the higher average deviation has no lower score, and the score
\* rises by at most half the rise of the average (the steepest zone's slope)
C21_Step ==
    (/\ RangeChecked
     /\ range_score' # None
     /\ range_args[1].profiles \in FullBaselines
     /\ range_args'[1].profiles \in FullBaselines)
        => LET avg1 == ClaimedAverage(range_args[1])
               avg2 == ClaimedAverage(range_args'[1])
               run == Units(avg2, AverageDen) - Units(avg1, AverageDen)
               rise == Units(range_score'[1], ScoreDen) - Units(range_score[1], ScoreDen)
           IN /\ AverageDen % avg1.d = 0 /\ AverageDen % avg2.d = 0
              /\ ScoreDen % range_score[1].d = 0 /\ ScoreDen % range_score'[1].d = 0
              /\ (run >= 0 => (rise >= 0 /\ 2 * rise <= 100 * run))

\* C21: the RangeFallback score always lies in [0, 0.95]; it is 0 when every
\* signal of the sample lies within the baseline's observed [min, max]; and it
\* is non-decreasing, with no jump at 0.3, 1.0 or 2.5, in the average over the
\* four signals of max(0, (min - x)/range, (x - max)/range), range floored.
C21_RangeScoreGraduated == []C21_Pointwise /\ [][C21_Step]_vars

\* a check whose average deviation is exactly 1.0, the second zone boundary:
\* the voltage four ranges above its maximum, the score 0.36
C21_Witness ==
    /\ RangeChecked
    /\ range_args[1].profiles = WideProfiles
    /\ ClaimedAverage(range_args[1]) = Frac(1, 1)
    /\ range_score[1] = Frac(36, 100)


-----------------------------------------------------------------------------
StatusAssessed == status_result # None /\ status_result[1].kind = "assessed"

\* 0.7 range + 0.3 ML, range, or 0.6 range + 0.4 ML, in tenths of the inputs
ClaimedBlend(ml, range) ==
    IF FracLess(Frac(7, 10), ml) /\ FracLess(range, Frac(4, 10))
    THEN Frac(7 * range.n * ml.d + 3 * ml.n * range.d, 10 * range.d * ml.d)
    ELSE IF FracLess(ml, Frac(2, 10)) /\ FracLess(Frac(3, 10), range)
    THEN range
    ELSE Frac(6 * range.n * ml.d + 4 * ml.n * range.d, 10 * range.d * ml.d)

\* C22: the anomaly score passed to the assessor is 0.7 range + 0.3 ML when
\* ML > 0.7 and range < 0.4, exactly range when ML < 0.2 and range > 0.3,
\* otherwise 0.6 range + 0.4 ML, then clamped to [0, 0.98]; with a baseline
\* but no trained detector, or when the detector cannot score or raises, it
\* equals the RangeFallback score.
C22_BlendedScore ==
    StatusAssessed =>
        LET r == status_result[1]
            path == status_args[1].path
            fallback == simple_range_check(status_args[1].profiles, status_args[1].latest)
        IN /\ FracLeq(Frac(0, 1), r.anomaly_score)
           /\ FracLeq(r.anomaly_score, Frac(98, 100))
           /\ (path.kind = "scored" =>
                 LET b == ClaimedBlend(path.value, fallback)
                 IN r.anomaly_score = (IF FracLess(Frac(98, 100), b) THEN Frac(98, 100) ELSE b))
           /\ (path.kind # "scored" => r.anomaly_score = fallback)

\* the detector raised on a reading outside the baseline: the score passed on
\* is the range score, which is positive
C22_Witness ==
    /\ StatusAssessed
    /\ status_args[1].path.kind = "raised"
    /\ status_result[1].anomaly_score = status_result[1].range_score
    /\ status_result[1].anomaly_score.n > 0


-----------------------------------------------------------------------------
\* C23: when the detector raises while scoring a window of a healthy-monitoring
\* or fault-injection tick, the is_faulty verdict stamped on the window is the
\* one the range check of the baseline gives for it; a detector exception
\* never by itself decides the verdict.
C23_RaiseFallsBackToRange ==
    (/\ window_verdict # None
     /\ window_args[1].answer.kind = "raised"
     /\ window_args[1].baseline # None)
        => window_verdict[1] =
              (DefaultVerdict(window_args[1].kind)
                 \/ OutsideTolerance(window_args[1].kind, window_args[1].baseline[1],
                                     window_args[1].latest))


-----------------------------------------------------------------------------
\* C24: a window of fewer than 10 samples never yields a feature vector or an
\* anomaly score: extract gives no vector for it, the slicer emits vectors
\* only for complete windows of at least 10 samples, and score_raw_batch fails
\* on it instead of returning a score.
C24_SmallWindowNoScore ==
    feature_call # None =>
        LET c == feature_call[1]
            r == feature_result[1]
        IN /\ (c.op = "extract" /\ c.n < 10 => r = None)
           /\ (c.op = "slice" =>
                 /\ Len(r) <= c.n \div c.window_size
                 /\ \A i \in 1..Len(r) : r[i].points = c.window_size /\ r[i].points >= 10)
           /\ (c.op = "score_raw" /\ c.n < 10 => r.kind = "raised")


-----------------------------------------------------------------------------
DistinctBaselineIds ==
    \A s, t \in saved : s.profile.baseline_id = t.profile.baseline_id => s.profile = t.profile

\* C25: for any sequence of save_baseline calls into one directory on profiles
\* with distinct baseline_ids, load_baseline of the path returned for a profile
\* yields a profile equal to it in every field.
C25_SaveLoadRoundTrip ==
    (loaded # None /\ DistinctBaselineIds) =>
        \A s \in saved : s.filepath = loaded[1].filepath => loaded[1].profile = s.profile


-----------------------------------------------------------------------------
\* the profiled columns of the data, with the profile of each
ProfiledColumns(args) ==
    DOMAIN args.data \cap (DOMAIN args.profile.signal_profiles
                             \cup DOMAIN args.profile.feature_profiles)

ProfileOf(args, c) ==
    IF c \in DOMAIN args.profile.signal_profiles THEN args.profile.signal_profiles[c]
    ELSE args.profile.feature_profiles[c]

\* the non-missing values of the profiled columns, as (column, row) pairs
CheckedCells(args) ==
    {<<c, i>> \in ProfiledColumns(args) \X (1..MaxRows + 1) :
        i <= Len(args.data[c]) /\ args.data[c][i] # NaN}

WithinBounds(args, cell) ==
    LET p == ProfileOf(args, cell[1])
        v == args.data[cell[1]][cell[2]][1]
    IN /\ p.mean - args.sigma_multiplier * p.std <= v
       /\ v <= p.mean + args.sigma_multiplier * p.std

\* C26: check_data_against_baseline checks each non-missing value of each
\* profiled column once and returns pass_rate = (checked values within
\* mean +- k std) / (checked values), one violation per out-of-bounds value,
\* and pass_rate 1.0 when nothing is checked.
C26_PassRateIsShareWithin ==
    check_result # None =>
        LET args == check_args[1]
            checked == CheckedCells(args)
            within == {cell \in checked : WithinBounds(args, cell)}
            r == check_result[1]
        IN /\ Len(r.result.violations) = Cardinality(checked \ within)
           /\ r.pass_rate = (IF checked = {} THEN Frac(1, 1)
                             ELSE Frac(Cardinality(within), Cardinality(checked)))


-----------------------------------------------------------------------------
\* C27: the values returned by one get_state call (state, message, fault kind,
\* fault severity) all come from a single set_state update: they are the
\* manager's values at one instant of the call.
C27_SnapshotFromOneUpdate ==
    snap_pc = "done" => snapshot[1] \in snap_seen


-----------------------------------------------------------------------------
\* C28: an asset never emits two consecutive events of the same type, over
\* every sequence of evaluate calls for it with reset(asset_id) or reset()
\* called in between; and the evaluate call that follows a reset is a first
\* observation and emits nothing.
C28_AlternatesAcrossResets ==
    /\ EventTypesAlternate("Motor-01")
    /\ (call.asset # "" /\ ~call.tracked) => call.result = <<>>


\* the sample is still among the newest readings the loop's trim keeps
WithinCapacity(n) == n < TickKeep(tick_kind)

\* C29: a sample simple_ingest appended while a monitoring loop ticks on the
\* same asset is not lost under any interleaving of the two: once both have
\* completed it is in the history unless the readings appended after it
\* fill the capacity, and the sample_count the request returned counted it
C29_IngestedSampleKept ==
    /\ (tick_pc = "sleep" /\ post_pc = "done" /\ WithinCapacity(newer))
          => Holds(live_history, IngestedSample)
    /\ (post_pc = "done" /\ WithinCapacity(post_response[1].newer))
          => post_response[1].counted


\* C30: in every reachable state of the lifecycle controller the fault kind
\* and the fault severity are both set when the state is FAULT_INJECTION and
\* both absent in IDLE, CALIBRATING and MONITORING_HEALTHY
C30_FaultFieldsIffInjecting ==
    /\ system_state = FAULT_INJECTION
          => (fault_type \in FaultType /\ fault_severity \in FaultSeverity)
    /\ system_state \in {IDLE, CALIBRATING, MONITORING_HEALTHY}
          => (fault_type = NoneStr /\ fault_severity = NoneStr)

\* reset_system has returned the controller from a fault injection to
\* healthy monitoring, and the fault fields are cleared
C30_Witness ==
    /\ system_state = MONITORING_HEALTHY
    /\ message = "reset"
    /\ fault_type = NoneStr
    /\ fault_severity = NoneStr
    /\ \E w \in 1..MaxThreads : threads[w].kind = "fault"

====
